---- MODULE Spec2Model ----
(***************************************************************************)
(* Notebook backends of Pulto3: output extraction, chart capture and       *)
(* spatial metadata merge.                                                 *)
(*                                                                         *)
(*   server/complete_backend_flask_server.py   the Flask server            *)
(*   Pulto/Backend/backend.py                  the small Flask server      *)
(*   Backend/backend.py                        the FastAPI server          *)
(*                                                                         *)
(* Python dictionaries are functions with a finite domain of strings; a    *)
(* key that is absent from the dictionary is absent from the DOMAIN.       *)
(* Python indices are 0-based, sequences here are 1-based: cell_idx of     *)
(* the code is (position - 1) here.                                        *)
(***************************************************************************)
EXTENDS Integers, Sequences, FiniteSets, TLC

VARIABLES
    doc,            \* extraction: the notebook document nbformat.read returned
    outputs,        \* extraction: the list extract_outputs_from_notebook returns
    extract_pc,     \* extraction: "ready" | "done"
    request,        \* handlers: the request being served and, as history, the
                    \*           message of the exception raised while serving it
    response,       \* handlers: the response the handler returned
    variant,        \* chart capture: which server runs ("flask" | "fastapi")
    nb,             \* chart capture: per request, the notebook it was handed
    pc,             \* chart capture: per request, its position in the loop
    cell_idx,       \* chart capture: per request, the loop variable (1-based)
    chart_images,   \* chart capture: per request, cell position -> image list
    figs,           \* the plotting library's process-wide figure registry
    evalLog,        \* chart capture history: per request, cell position -> what happened
    exec_globals,   \* chart capture: per request, the names of the dict handed to exec
    store,          \* spatial: the notebook file under UPLOAD_FOLDER
    lastCall,       \* spatial history: the last update call and the file before it
    users,          \* Pulto API: the rows of the users table
    next_id,        \* Pulto API: the next value of each table's id sequence
    now,            \* Pulto API: the clock, time.time()
    token,          \* Pulto API: the access token issued last
    notebooks,      \* Pulto API: the rows of the notebooks table, with the content
                    \*            each was created from as history
    assets,         \* Pulto API: the rows of the assets table
    files,          \* Pulto API: local path or object key -> content
    jobs,           \* Pulto API: the ids of the jobs that were queued
    apiCall,        \* Pulto API history: the last request, its answer, and the
                    \*                    tables before it
    tmp_files,      \* handlers: the temporary files process_notebook left on disk
    upload_folder,  \* Flask convert: UPLOAD_FOLDER, file name -> content
    conv,           \* Flask convert: per request thread, its position and locals
    bridge          \* MQTT bridge: the socket, the queue, the MQTT client

extractVars == <<doc, outputs, extract_pc, request, response>>
chartVars   == <<variant, nb, pc, cell_idx, chart_images, figs, evalLog,
                 exec_globals>>
spatialVars == <<store, lastCall>>
apiVars     == <<users, next_id, now, token, notebooks, assets, files, jobs, apiCall>>
tmpVars     == <<tmp_files>>
raceVars    == <<upload_folder, conv>>
bridgeVars  == <<bridge>>
serviceVars == <<apiVars, tmpVars, raceVars, bridgeVars>>
vars == <<doc, outputs, extract_pc, request, response, variant, nb, pc, cell_idx, chart_images,
          figs, evalLog, exec_globals, store, lastCall, users, next_id, now, token,
          notebooks, assets, files, jobs, apiCall, tmp_files, upload_folder, conv,
          bridge>>

(***************************************************************************)
(* Bounds of the model.                                                    *)
(***************************************************************************)
MaxCells == 2
MaxOutputs == 2
MaxUsers == 2
MaxTime == 3

(***************************************************************************)
(* Dictionaries.                                                           *)
(***************************************************************************)
Has(d, k) == k \in DOMAIN d

Put(d, k, v) == (k :> v) @@ d

EmptyDict == [k \in {} |-> 0]

\* Python's d.get(k) used as a truth value: present and not the empty string.
Truthy(d, k) == Has(d, k) /\ d[k] # ""

(***************************************************************************)
(* Text. A payload or a statement is a TLA+ string; str.lower() and the    *)
(* substring test `needle in hay` are tabulated for the strings the model  *)
(* uses. A cell's source text is a sequence of such strings, "\n" among    *)
(* them where a line ends.                                                 *)
(***************************************************************************)
\* A lower() that leaves the letters as they are.
LowerIdentity(s) == s

Lower(s) ==
    CASE s = "<TABLE CLASS=\"DATAFRAME\">" -> "<table class=\"dataframe\">"
      [] s = "<DataFrame>"                 -> "<dataframe>"
      [] s = "#Matplotlib"                 -> "#matplotlib"
      [] s = "A@x.io"                      -> "a@x.io"
      [] s = "Bearer"                      -> "bearer"
      [] s = "Basic"                       -> "basic"
      [] OTHER                             -> s

\* <<hay, needle>>: needle is a substring of hay (case-sensitively).
SubstringTable ==
    { <<"<table class=\"dataframe\">", "dataframe">>,
      <<"<dataframe>", "dataframe">>,
      <<"#matplotlib", "matplotlib">>,
      <<"plt.figure()", "plt.">>,
      <<"plt.plot([1])", "plt.">>,
      <<"plt.plot([1])", "plot(">>,
      <<"plt.plot(x)", "plt.">>,
      <<"plt.plot(x)", "plot(">> }

Contains(hay, needle) == <<hay, needle>> \in SubstringTable

(***************************************************************************)
(* Output extraction.                                                      *)
(***************************************************************************)
SeqsUpTo(S, n) == UNION { [1..k -> S] : k \in 0..n }

StreamOutput == [output_type |-> "stream", name |-> "stdout", text |-> "hi"]

ErrorOutput ==
    [output_type |-> "error", ename |-> "ZeroDivisionError",
     evalue |-> "division by zero", traceback |-> <<"tb1", "tb2">>]

\* The payloads a display_data / execute_result output may carry per MIME type.
MimePayloads ==
    [ text_plain |-> {"3", "<DataFrame>"},
      image_png  |-> {"PNG"},
      image_jpeg |-> {"JPG"},
      app_json   |-> {"{}"},
      text_html  |-> {"<b>x</b>", "<table class=\"dataframe\">",
                      "<TABLE CLASS=\"DATAFRAME\">"} ]

MimeName(f) ==
    CASE f = "text_plain" -> "text/plain"
      [] f = "image_png"  -> "image/png"
      [] f = "image_jpeg" -> "image/jpeg"
      [] f = "app_json"   -> "application/json"
      [] f = "text_html"  -> "text/html"

\* Every MIME bundle: a payload for each MIME type of any subset of the types.
DataBundles ==
    UNION { { [m \in { MimeName(f) : f \in S } |->
                 LET f == CHOOSE g \in S : MimeName(g) = m IN pick[f]] :
              pick \in [S -> UNION { MimePayloads[f] : f \in S }] }
            : S \in SUBSET DOMAIN MimePayloads }

WellTyped(data) ==
    \A f \in DOMAIN MimePayloads :
        Has(data, MimeName(f)) => data[MimeName(f)] \in MimePayloads[f]

DisplayOutputs ==
    { [output_type |-> t, data |-> d] :
        t \in {"display_data", "execute_result"},
        d \in { b \in DataBundles : WellTyped(b) } }

\* The outputs used where only order and type matter.
OrderShapes ==
    { StreamOutput, ErrorOutput,
      [output_type |-> "display_data",
       data |-> ("text/plain" :> "3") @@ ("image/png" :> "PNG")] }

\* Cells of the documents handed to the extractor. A markdown cell with an
\* outputs list is not schema-valid, but nbformat.read only logs validation
\* errors, so the extractor can be handed one.
BareCell(t) == [cell_type |-> t, source |-> <<>>, metadata |-> EmptyDict]

WithOutputs(cell, o) == Put(cell, "outputs", o)

OrderCells ==
    { BareCell("markdown"), WithOutputs(BareCell("markdown"), <<StreamOutput>>),
      BareCell("code") }
    \cup { WithOutputs(BareCell("code"), o) : o \in SeqsUpTo(OrderShapes, MaxOutputs) }

\* Documents: any short sequence of cells, and every one-output document.
ExtractDocs ==
    SeqsUpTo(OrderCells, MaxCells)
    \cup { <<WithOutputs(BareCell("code"), <<o>>)>> : o \in DisplayOutputs }

\* A text branch that is taken only when the bundle has no image.
WithTextUnlessImage(d, data) ==
    IF Has(data, "text/plain") /\ ~Has(data, "image/png") /\ ~Has(data, "image/jpeg")
    THEN Put(d, "text", data["text/plain"]) ELSE d

\* if 'text/plain' in data: output_data['text'] = data['text/plain']
WithText(d, data) ==
    IF Has(data, "text/plain") THEN Put(d, "text", data["text/plain"]) ELSE d

\* The body of the inner loop: the record built for one output.
OutputData(cell_index, output_index, output) ==
    LET base == [cell_index |-> cell_index, output_index |-> output_index,
                 type |-> output.output_type]
    IN  IF output.output_type = "stream"
        THEN Put(Put(base, "text", output.text), "stream", output.name)
        ELSE IF output.output_type \in {"display_data", "execute_result"}
        THEN LET data == output.data
                 d1 == WithText(base, data)
                 d2 == IF Has(data, "image/png")
                       THEN Put(Put(d1, "image_png", data["image/png"]),
                                "image_type", "png")
                       ELSE d1
                 d3 == IF Has(data, "image/jpeg")
                       THEN Put(Put(d2, "image_jpeg", data["image/jpeg"]),
                                "image_type", "jpeg")
                       ELSE d2
                 d4 == IF Has(data, "application/json")
                       THEN Put(d3, "json_data", data["application/json"]) ELSE d3
                 d5 == IF Has(data, "text/html")
                       THEN LET h == Put(d4, "html", data["text/html"])
                            IN  IF Contains(Lower(data["text/html"]), "dataframe")
                                THEN Put(h, "is_dataframe", TRUE) ELSE h
                       ELSE d4
             IN  d5
        ELSE IF output.output_type = "error"
        THEN Put(base, "error", [name |-> output.ename, value |-> output.evalue,
                                 traceback |-> output.traceback])
        ELSE base

\* A guard that forgets the cell type.
HasOutputsAnyType(cell) == Has(cell, "outputs")

\* The guard of the outer loop's body.
HasOutputs(cell) == cell.cell_type = "code" /\ Has(cell, "outputs")

\* An inner loop that appends no record for an error output.
CellOutputsDroppingErrors(cell_index, cell) ==
    IF HasOutputs(cell)
    THEN LET kept == { i \in 1..Len(cell.outputs) : cell.outputs[i].output_type # "error" }
         IN  IF kept = 1..Len(cell.outputs)
             THEN [i \in 1..Len(cell.outputs) |->
                     OutputData(cell_index, i - 1, cell.outputs[i])]
             ELSE <<>>
    ELSE <<>>

\* The records one cell appends, in output order.
CellOutputs(cell_index, cell) ==
    IF HasOutputs(cell)
    THEN [i \in 1..Len(cell.outputs) |-> OutputData(cell_index, i - 1, cell.outputs[i])]
    ELSE <<>>

RECURSIVE ExtractFrom(_, _)
ExtractFrom(cells, pos) ==
    IF pos > Len(cells) THEN <<>>
    ELSE CellOutputs(pos - 1, cells[pos]) \o ExtractFrom(cells, pos + 1)

extract_outputs_from_notebook(cells) == ExtractFrom(cells, 1)

\* An extractor that consumes the outputs it reads.
DocOutputsCleared(cells) ==
    [p \in 1..Len(cells) |->
        IF Has(cells[p], "outputs") THEN [cells[p] EXCEPT !.outputs = <<>>]
        ELSE cells[p]]

\* The document after the extractor's loops: they read nb.cells, cell.outputs
\* and output.data and assign only to output_data and outputs.
DocAfterExtract(cells) == cells

(***************************************************************************)
(* Chart capture.                                                          *)
(*                                                                         *)
(* A figure of the registry records the request and cell whose evaluation  *)
(* created it, or that savefig/clf created it (pyplot's gcf() makes a      *)
(* figure when none is open). The registry is in figure-number order; the  *)
(* current figure is the last one. An image is the figure it renders.      *)
(***************************************************************************)
Threads == {1, 2}

Keywords == {"plt.", "matplotlib", "plot(", "scatter(", "bar("}

\* any(keyword in source_code.lower() for keyword in [...])
PlotLike(source) ==
    \E i \in 1..Len(source), keyword \in Keywords : Contains(Lower(source[i]), keyword)

\* The sources of the cells: what each statement does when evaluated is
\* given by ExecStmt.
ChartSources ==
    { <<>>, <<"x=1">>, <<"raise">>, <<"#Matplotlib">>, <<"plt.plot([1])">>,
      <<"plt.figure()">>, <<"plt.figure()", "plt.figure()">>,
      <<"plt.figure()", "raise">>, <<"raise", "plt.plot([1])">>,
      <<"plt.plot([1])", "raise">>,
      <<"x=1", "plt.plot(x)">>, <<"plt.plot(x)">> }

ChartCells ==
    { [cell_type |-> "markdown", source |-> <<"plt.plot([1])">>] }
    \cup { [cell_type |-> "code", source |-> src] : src \in ChartSources }

Notebooks == SeqsUpTo(ChartCells, MaxCells)

NewFigure(r, c, by) == [req |-> r, cell |-> c, by |-> by]

\* pyplot.gcf(): the registry with a current figure in it.
Gcf(registry, r, c, by) ==
    IF registry = <<>> THEN <<NewFigure(r, c, by)>> ELSE registry

\* One statement of exec(source_code, exec_globals), by request r in cell c:
\* what it does to the figure registry.
ExecStmt(stmt, registry, r, c) ==
    CASE stmt = "plt.figure()"  -> Append(registry, NewFigure(r, c, "exec"))
      [] stmt = "plt.plot([1])" -> Gcf(registry, r, c, "exec")
      [] stmt = "plt.plot(x)"   -> Gcf(registry, r, c, "exec")
      [] OTHER                  -> registry

\* The names a statement binds in the dict handed to exec.
Binds(stmt) == IF stmt = "x=1" THEN {"x"} ELSE {}

\* The names a statement reads: a name that is not in the dict is a NameError.
Uses(stmt) ==
    CASE stmt = "plt.figure()"  -> {"plt"}
      [] stmt = "plt.plot([1])" -> {"plt"}
      [] stmt = "plt.plot(x)"   -> {"plt", "x"}
      [] OTHER                  -> {}

\* exec_globals = {'__builtins__': ..., 'plt': ..., 'np': ..., 'numpy': ...,
\* 'matplotlib': ...} and namespace = {'np': ..., 'plt': ..., '__name__': ...}:
\* the keys of the dict literal either server builds for a cell.
Preset(v) ==
    IF v = "flask" THEN {"__builtins__", "plt", "np", "numpy", "matplotlib"}
    ELSE {"np", "plt", "__name__"}

\* A dict that is kept from one cell to the next.
KeptNamespace(v, previous) == previous \cup Preset(v)

\* The dict a cell is evaluated in: a new dict literal, whatever came before.
NewNamespace(v, previous) == Preset(v)

\* exec(source_code, exec_globals): the statements in order, up to a raise.
RECURSIVE Exec(_, _, _, _, _)
Exec(source, registry, names, r, c) ==
    IF source = <<>> THEN [figs |-> registry, raised |-> FALSE, names |-> names]
    ELSE IF Head(source) = "raise" \/ ~(Uses(Head(source)) \subseteq names)
    THEN [figs |-> registry, raised |-> TRUE, names |-> names]
    ELSE Exec(Tail(source), ExecStmt(Head(source), registry, r, c),
              names \cup Binds(Head(source)), r, c)

\* A close that leaves the figures open.
CloseNothing(registry) == registry

\* plt.close('all')
CloseAll(registry) == <<>>

\* An except clause that gives up on the rest of the notebook.
AfterRaiseAbort(i) == [pc |-> "done", cell_idx |-> i]

\* except Exception as e: print(...); continue
AfterRaise(i) == [pc |-> "loop", cell_idx |-> i + 1]

Cell(r) == nb[r][cell_idx[r]]

LogStart(r) ==
    Put(evalLog[r], cell_idx[r], [start |-> figs, handled |-> FALSE])

LogEval(r, e, made) ==
    Put(evalLog[r], cell_idx[r],
        [start |-> evalLog[r][cell_idx[r]].start, left |-> e.figs,
         made |-> made, raised |-> e.raised, handled |-> e.raised, after |-> e.figs])

LogHandled(r, registry) ==
    [evalLog[r] EXCEPT ![cell_idx[r]] = [@ EXCEPT !.handled = TRUE, !.after = registry]]

(* ---- Flask server: generate_chart_images_from_notebook ---------------- *)

\* The top of the for loop: a cell that is not a plot-like code cell is
\* passed over, a plot-like one goes to the try block.
FlaskLoop(r) ==
    /\ variant = "flask" /\ pc[r] = "loop"
    /\ cell_idx[r] <= Len(nb[r])
    /\ IF Cell(r).cell_type = "code" /\ Cell(r).source # <<>>
          /\ PlotLike(Cell(r).source)
       THEN /\ pc' = [pc EXCEPT ![r] = "exec"]
            /\ evalLog' = [evalLog EXCEPT ![r] = LogStart(r)]
            /\ exec_globals' = [exec_globals EXCEPT ![r] = NewNamespace(variant, @)]
            /\ UNCHANGED cell_idx
       ELSE /\ cell_idx' = [cell_idx EXCEPT ![r] = @ + 1]
            /\ UNCHANGED <<pc, evalLog, exec_globals>>
    /\ UNCHANGED <<variant, nb, chart_images, figs, extractVars, spatialVars, serviceVars>>

\* exec(source_code, exec_globals), and the except clause when it raises.
FlaskExec(r) ==
    /\ variant = "flask" /\ pc[r] = "exec"
    /\ LET e == Exec(Cell(r).source, figs, exec_globals[r], r, cell_idx[r])
       IN  /\ figs' = e.figs
           /\ exec_globals' = [exec_globals EXCEPT ![r] = e.names]
           /\ evalLog' = [evalLog EXCEPT ![r] = LogEval(r, e, Len(e.figs) - Len(figs))]
           /\ IF e.raised
              THEN /\ pc' = [pc EXCEPT ![r] = AfterRaise(cell_idx[r]).pc]
                   /\ cell_idx' = [cell_idx EXCEPT ![r] = AfterRaise(cell_idx[r]).cell_idx]
              ELSE /\ pc' = [pc EXCEPT ![r] = "savefig"]
                   /\ UNCHANGED cell_idx
    /\ UNCHANGED <<variant, nb, chart_images, extractVars, spatialVars, serviceVars>>

\* plt.savefig(buffer, ...) of the current figure; chart_images[key] = [image]
FlaskSavefig(r) ==
    /\ variant = "flask" /\ pc[r] = "savefig"
    /\ LET registry == Gcf(figs, r, cell_idx[r], "savefig")
       IN  /\ figs' = registry
           /\ chart_images' = [chart_images EXCEPT ![r] =
                                 Put(@, cell_idx[r], <<registry[Len(registry)]>>)]
    /\ pc' = [pc EXCEPT ![r] = "close"]
    /\ UNCHANGED <<variant, nb, cell_idx, evalLog, exec_globals, extractVars,
                   spatialVars, serviceVars>>

\* plt.clf(); plt.close('all'), and on to the next cell.
FlaskClose(r) ==
    /\ variant = "flask" /\ pc[r] = "close"
    /\ figs' = CloseAll(Gcf(figs, r, cell_idx[r], "clf"))
    /\ evalLog' = [evalLog EXCEPT ![r] = LogHandled(r, figs')]
    /\ pc' = [pc EXCEPT ![r] = "loop"]
    /\ cell_idx' = [cell_idx EXCEPT ![r] = @ + 1]
    /\ UNCHANGED <<variant, nb, chart_images, exec_globals, extractVars, spatialVars, serviceVars>>

\* return chart_images
Return(r) ==
    /\ pc[r] = "loop"
    /\ cell_idx[r] > Len(nb[r])
    /\ pc' = [pc EXCEPT ![r] = "done"]
    /\ UNCHANGED <<variant, nb, cell_idx, chart_images, figs, evalLog,
                   exec_globals, extractVars, spatialVars, serviceVars>>

(* ---- FastAPI server: extract_charts_from_notebook --------------------- *)

\* The top of the for loop: every code cell is handed to
\* execute_cell_and_capture_plots.
FastLoop(r) ==
    /\ variant = "fastapi" /\ pc[r] = "loop"
    /\ cell_idx[r] <= Len(nb[r])
    /\ IF Cell(r).cell_type = "code"
       THEN /\ pc' = [pc EXCEPT ![r] = "clear"]
            /\ UNCHANGED cell_idx
       ELSE /\ cell_idx' = [cell_idx EXCEPT ![r] = @ + 1]
            /\ UNCHANGED pc
    /\ UNCHANGED <<variant, nb, chart_images, figs, evalLog, exec_globals,
                   extractVars, spatialVars, serviceVars>>

\* plt.close('all') before the evaluation
FastClear(r) ==
    /\ variant = "fastapi" /\ pc[r] = "clear"
    /\ figs' = CloseAll(figs)
    /\ evalLog' = [evalLog EXCEPT ![r] =
                     Put(@, cell_idx[r], [start |-> figs', handled |-> FALSE])]
    /\ exec_globals' = [exec_globals EXCEPT ![r] = NewNamespace(variant, @)]
    /\ pc' = [pc EXCEPT ![r] = "exec"]
    /\ UNCHANGED <<variant, nb, cell_idx, chart_images, extractVars, spatialVars, serviceVars>>

\* exec(code, namespace); when it raises, the except clause prints and the
\* empty captured_plots is returned, so the cell gets no entry.
FastExec(r) ==
    /\ variant = "fastapi" /\ pc[r] = "exec"
    /\ LET e == Exec(Cell(r).source, figs, exec_globals[r], r, cell_idx[r])
       IN  /\ figs' = e.figs
           /\ exec_globals' = [exec_globals EXCEPT ![r] = e.names]
           /\ evalLog' = [evalLog EXCEPT ![r] = LogEval(r, e, Len(e.figs) - Len(figs))]
           /\ IF e.raised
              THEN /\ pc' = [pc EXCEPT ![r] = AfterRaise(cell_idx[r]).pc]
                   /\ cell_idx' = [cell_idx EXCEPT ![r] = AfterRaise(cell_idx[r]).cell_idx]
              ELSE /\ pc' = [pc EXCEPT ![r] = "capture"]
                   /\ UNCHANGED cell_idx
    /\ UNCHANGED <<variant, nb, chart_images, extractVars, spatialVars, serviceVars>>

\* Every open figure, in figure-number order, is saved and closed; the cell
\* gets an entry when the list is not empty.
FastCapture(r) ==
    /\ variant = "fastapi" /\ pc[r] = "capture"
    /\ chart_images' = [chart_images EXCEPT ![r] =
                          IF figs # <<>> THEN Put(@, cell_idx[r], figs) ELSE @]
    /\ figs' = <<>>
    /\ evalLog' = [evalLog EXCEPT ![r] = LogHandled(r, figs')]
    /\ pc' = [pc EXCEPT ![r] = "loop"]
    /\ cell_idx' = [cell_idx EXCEPT ![r] = @ + 1]
    /\ UNCHANGED <<variant, nb, exec_globals, extractVars, spatialVars, serviceVars>>

(***************************************************************************)
(* Spatial metadata merge (Flask server).                                  *)
(*                                                                         *)
(* A notebook file holds a cell's source either as one string or as a list *)
(* of lines; nbformat.read joins the lines, nbformat.write splits them.    *)
(***************************************************************************)
StrSource(text) == [form |-> "str", text |-> text]

ListSource(lines) == [form |-> "list", lines |-> lines]

RECURSIVE Join(_)
Join(lines) == IF lines = <<>> THEN <<>> ELSE Head(lines) \o Join(Tail(lines))

\* str.splitlines(keepends=True)
RECURSIVE SplitLines(_, _)
SplitLines(text, line) ==
    IF text = <<>> THEN (IF line = <<>> THEN <<>> ELSE <<line>>)
    ELSE IF Head(text) = "\n"
         THEN <<Append(line, "\n")>> \o SplitLines(Tail(text), <<>>)
         ELSE SplitLines(Tail(text), Append(line, Head(text)))

\* nbformat.read(f, as_version=4): the cells with their sources joined.
ReadCell(c) ==
    [c EXCEPT !.source = IF c.source.form = "list" THEN Join(c.source.lines)
                         ELSE c.source.text]

NbRead(file) == [p \in 1..Len(file) |-> ReadCell(file[p])]

\* nbformat.write(nb, f): the cells with their sources split into lines.
WriteCell(c) == [c EXCEPT !.source = ListSource(SplitLines(c.source, <<>>))]

NbWrite(cells) == [p \in 1..Len(cells) |-> WriteCell(cells[p])]

SpatialPayloads == {"P1", "P2"}

\* Cells of the stored notebook files.
FileCells ==
    { [cell_type |-> "code", source |-> StrSource(<<"x=1", "\n", "y=2">>),
       outputs |-> <<StreamOutput>>],
      [cell_type |-> "code", source |-> ListSource(<< <<"a", "\n">>, <<"b">> >>),
       metadata |-> ("tags" :> "t"), outputs |-> <<>>],
      [cell_type |-> "markdown", source |-> ListSource(<< <<"# h", "\n">> >>),
       metadata |-> ("spatial" :> "old")],
      [cell_type |-> "code", source |-> StrSource(<<>>),
       metadata |-> ("spatial" :> "old") @@ ("tags" :> "t"),
       outputs |-> <<ErrorOutput>>] }

SpatialFiles == SeqsUpTo(FileCells, MaxCells)

\* A merge that replaces the cell's metadata block.
SetSpatialDroppingMetadata(cell, spatial_data) ==
    Put(cell, "metadata", ("spatial" :> spatial_data))

\* if 'metadata' not in cell: cell['metadata'] = {}
\* cell['metadata']['spatial'] = spatial_data
SetSpatial(cell, spatial_data) ==
    LET metadata == IF Has(cell, "metadata") THEN cell.metadata ELSE EmptyDict
    IN  Put(cell, "metadata", Put(metadata, "spatial", spatial_data))

\* An "all cells" loop that stops one cell short.
UpdateAllButLast(cells, spatial_data) ==
    [p \in 1..Len(cells) |->
        IF p < Len(cells) THEN SetSpatial(cells[p], spatial_data) ELSE cells[p]]

\* for cell in nb.cells: ...
UpdateAllCells(cells, spatial_data) ==
    [p \in 1..Len(cells) |-> SetSpatial(cells[p], spatial_data)]

\* Python's list indexing: a negative index counts from the end, and an index
\* outside -len .. len-1 raises IndexError. The position (1-based), 0 for IndexError.
PyIndex(i, len) ==
    IF 0 <= i /\ i < len THEN i + 1
    ELSE IF i < 0 /\ -len <= i THEN len + i + 1
    ELSE 0

\* The branch for one cell: [raised, cells].
UpdateOneCell(cells, spatial_data, cell_index) ==
    IF cell_index < Len(cells)
    THEN IF PyIndex(cell_index, Len(cells)) = 0
         THEN [raised |-> TRUE, cells |-> cells]
         ELSE [raised |-> FALSE,
               cells |-> [cells EXCEPT ![PyIndex(cell_index, Len(cells))] =
                            SetSpatial(@, spatial_data)]]
    ELSE [raised |-> FALSE, cells |-> cells]

\* update_notebook_spatial_metadata(notebook_path, spatial_data, cell_index):
\* target.all stands for cell_index=None. The file is written unless the
\* update raised; the result is [raised, file].
update_notebook_spatial_metadata(file, spatial_data, target) ==
    LET cells == NbRead(file)
        r == IF ~target.all
             THEN UpdateOneCell(cells, spatial_data, target.cell_index)
             ELSE [raised |-> FALSE, cells |-> UpdateAllCells(cells, spatial_data)]
    IN  IF r.raised THEN [raised |-> TRUE, file |-> file]
        ELSE [raised |-> FALSE, file |-> NbWrite(r.cells)]

OneCell(i) == [all |-> FALSE, cell_index |-> i]

AllCells == [all |-> TRUE, cell_index |-> 0]

\* The function called by a caller of the module, with any index.
CallUpdate(spatial_data, target) ==
    /\ store.exists
    /\ LET r == update_notebook_spatial_metadata(store.cells, spatial_data, target)
       IN  /\ store' = [store EXCEPT !.cells = r.file]
           /\ lastCall' = [op |-> "update", via |-> "function", target |-> target,
                           spatial_data |-> spatial_data, before |-> store.cells,
                           raised |-> r.raised]
    /\ UNCHANGED <<extractVars, chartVars, serviceVars>>

\* PUT /notebooks/<name>/cells/<int:cell_index>/spatial and
\* PUT /notebooks/<name>/cells/spatial: 400 without a payload, 404 without
\* the file, 500 when the update raised, else 200. The route's int converter
\* admits only non-negative indices.
PutSpatial(spatial_data, target) ==
    /\ IF spatial_data = ""
       THEN /\ lastCall' = [op |-> "rejected", status |-> 400]
            /\ UNCHANGED store
       ELSE IF ~store.exists
       THEN /\ lastCall' = [op |-> "rejected", status |-> 404]
            /\ UNCHANGED store
       ELSE LET r == update_notebook_spatial_metadata(store.cells, spatial_data, target)
            IN  /\ store' = [store EXCEPT !.cells = r.file]
                /\ lastCall' = [op |-> "update", via |-> "endpoint", target |-> target,
                                spatial_data |-> spatial_data, before |-> store.cells,
                                raised |-> r.raised,
                                status |-> IF r.raised THEN 500 ELSE 200]
    /\ UNCHANGED <<extractVars, chartVars, serviceVars>>

update_cell_spatial_metadata ==
    \E spatial_data \in SpatialPayloads \cup {""}, i \in 0..(MaxCells + 1) :
        PutSpatial(spatial_data, OneCell(i))

update_all_cells_spatial_metadata ==
    \E spatial_data \in SpatialPayloads \cup {""} : PutSpatial(spatial_data, AllCells)

CallUpdateFunction ==
    \E spatial_data \in SpatialPayloads, i \in (-(MaxCells + 1))..(MaxCells + 1) :
        CallUpdate(spatial_data, OneCell(i))

(***************************************************************************)
(* Specification of the extractor: a document is read, then extracted.     *)
(***************************************************************************)
NoRequest == [endpoint |-> "none"]

NoResponse == [status |-> 0]

HandlersIdle == request = NoRequest /\ response = NoResponse

ApiIdle ==
    /\ users = {} /\ next_id = EmptyDict /\ now = 0 /\ token = EmptyDict
    /\ notebooks = {} /\ assets = {} /\ files = EmptyDict /\ jobs = {}
    /\ apiCall = [op |-> "none"]

TmpIdle == tmp_files = {}

RaceIdle == upload_folder = EmptyDict /\ conv = <<>>

BridgeIdle == bridge = [state |-> "none"]

ServiceIdle == ApiIdle /\ TmpIdle /\ RaceIdle /\ BridgeIdle

ExtractIdle == doc = <<>> /\ outputs = <<>> /\ extract_pc = "off" /\ HandlersIdle

SpatialIdle == store = [exists |-> FALSE, cells |-> <<>>] /\ lastCall = [op |-> "none"]

ChartIdle ==
    /\ variant = "none" /\ nb = <<>> /\ pc = <<>> /\ cell_idx = <<>>
    /\ chart_images = <<>> /\ figs = <<>> /\ evalLog = <<>>
    /\ exec_globals = <<>>

(***************************************************************************)
(* Specification of chart capture: one request at a time, on either        *)
(* server. The registry is empty when the server starts.                   *)
(***************************************************************************)
InitChart ==
    /\ variant \in {"flask", "fastapi"}
    /\ nb \in [{1} -> Notebooks]
    /\ pc = [r \in {1} |-> "loop"]
    /\ cell_idx = [r \in {1} |-> 1]
    /\ chart_images = [r \in {1} |-> EmptyDict]
    /\ evalLog = [r \in {1} |-> EmptyDict]
    /\ exec_globals = [r \in {1} |-> {}]
    /\ figs = <<>>
    /\ ExtractIdle /\ SpatialIdle /\ ServiceIdle

NextChart ==
    \/ FlaskLoop(1) \/ FlaskExec(1) \/ FlaskSavefig(1) \/ FlaskClose(1)
    \/ FastLoop(1) \/ FastClear(1) \/ FastExec(1) \/ FastCapture(1)
    \/ Return(1)

SpecChart == InitChart /\ [][NextChart]_vars

(***************************************************************************)
(* Specification of two chart-capture requests running in two threads of   *)
(* the Flask server (app.run serves each request in its own thread). The   *)
(* notebooks hold only plot-like cells that do not raise, so that whatever *)
(* reaches a request from outside comes from the other thread.             *)
(***************************************************************************)
ConcCells ==
    { [cell_type |-> "code", source |-> src] :
        src \in { <<"#Matplotlib">>, <<"plt.plot([1])">>, <<"plt.figure()">> } }

ConcNotebooks == UNION { [1..k -> ConcCells] : k \in 1..2 }

InitConc ==
    /\ variant = "flask"
    /\ nb \in [Threads -> ConcNotebooks]
    /\ pc = [r \in Threads |-> "loop"]
    /\ cell_idx = [r \in Threads |-> 1]
    /\ chart_images = [r \in Threads |-> EmptyDict]
    /\ evalLog = [r \in Threads |-> EmptyDict]
    /\ exec_globals = [r \in Threads |-> {}]
    /\ figs = <<>>
    /\ ExtractIdle /\ SpatialIdle /\ ServiceIdle

NextConc ==
    \E r \in Threads :
        \/ FlaskLoop(r) \/ FlaskExec(r) \/ FlaskSavefig(r) \/ FlaskClose(r)
        \/ Return(r)

SpecConc == InitConc /\ [][NextConc]_vars

(***************************************************************************)
(* Specification of two chart-capture requests served one after the other  *)
(* by the same server process, both handed the same notebook: the second   *)
(* request starts when the first has returned, in whatever state the first *)
(* left the process.                                                       *)
(***************************************************************************)
InitHistory ==
    /\ variant \in {"flask", "fastapi"}
    /\ nb \in { [r \in Threads |-> n] : n \in Notebooks }
    /\ pc = [r \in Threads |-> "loop"]
    /\ cell_idx = [r \in Threads |-> 1]
    /\ chart_images = [r \in Threads |-> EmptyDict]
    /\ evalLog = [r \in Threads |-> EmptyDict]
    /\ exec_globals = [r \in Threads |-> {}]
    /\ figs = <<>>
    /\ ExtractIdle /\ SpatialIdle /\ ServiceIdle

NextHistory ==
    \E r \in Threads :
        /\ r = 2 => pc[1] = "done"
        /\ \/ FlaskLoop(r) \/ FlaskExec(r) \/ FlaskSavefig(r) \/ FlaskClose(r)
           \/ FastLoop(r) \/ FastClear(r) \/ FastExec(r) \/ FastCapture(r)
           \/ Return(r)

SpecHistory == InitHistory /\ [][NextHistory]_vars

InitExtract ==
    /\ doc \in ExtractDocs
    /\ outputs = <<>>
    /\ extract_pc = "ready"
    /\ HandlersIdle
    /\ ChartIdle /\ SpatialIdle /\ ServiceIdle

Extract ==
    /\ extract_pc = "ready"
    /\ outputs' = extract_outputs_from_notebook(doc)
    /\ doc' = DocAfterExtract(doc)
    /\ extract_pc' = "done"
    /\ UNCHANGED <<request, response, chartVars, spatialVars, serviceVars>>

NextExtract == Extract

SpecExtract == InitExtract /\ [][NextExtract]_vars

(***************************************************************************)
(* Specification of the spatial metadata merge on one stored file.         *)
(***************************************************************************)
InitSpatial ==
    /\ store \in { [exists |-> TRUE, cells |-> f] : f \in SpatialFiles }
                 \cup { [exists |-> FALSE, cells |-> <<>>] }
    /\ lastCall = [op |-> "none"]
    /\ ExtractIdle /\ ChartIdle /\ ServiceIdle

NextSpatial ==
    \/ update_cell_spatial_metadata
    \/ update_all_cells_spatial_metadata
    \/ CallUpdateFunction

SpecSpatial == InitSpatial /\ [][NextSpatial]_vars

(***************************************************************************)
(* Request handlers: POST /process_notebook (both Flask servers), POST     *)
(* /convert/<name> (Flask and FastAPI servers) and GET /health.            *)
(*                                                                         *)
(* An upload is no file part at all, a file that is not JSON, or a         *)
(* notebook. An exception is the message str(e) gives; "" is no exception. *)
(***************************************************************************)
\* Outputs that lack a field the extractor reads.
MalformedOutputs ==
    { [name |-> "stdout", text |-> "hi"],
      [output_type |-> "stream", name |-> "stdout"],
      [output_type |-> "display_data"],
      [output_type |-> "error", ename |-> "ZeroDivisionError"] }

ProcessOutputs == DisplayOutputs \cup {StreamOutput, ErrorOutput} \cup MalformedOutputs

\* The notebooks posted to /process_notebook: every one-output notebook, and
\* some that have a code cell without an outputs list.
ProcessDocs ==
    { <<WithOutputs(BareCell("code"), <<o>>)>> : o \in ProcessOutputs }
    \cup { <<>>, <<BareCell("markdown")>>, <<BareCell("code")>>,
           <<BareCell("code"), WithOutputs(BareCell("code"), <<StreamOutput>>)>>,
           <<WithOutputs(BareCell("code"), <<StreamOutput>>),
             WithOutputs(BareCell("code"), <<[output_type |-> "stream", name |-> "stdout"]>>)>> }

ProcessUploads ==
    { [kind |-> "none"], [kind |-> "garbage"] }
    \cup { [kind |-> "notebook", cells |-> d] : d \in ProcessDocs }

\* str(e) of the error nbformat.read raises on a file that is not JSON.
NotJSONError == "Notebook does not appear to be JSON"

\* str(e) of the error json.load / json.loads raises on such a file.
JSONDecodeError == "Expecting value: line 1 column 1 (char 0)"

\* The first attribute the inner loop body reads and the output lacks: the
\* message of the AttributeError, "" when the output has them all.
MissingAttr(output) ==
    IF ~Has(output, "output_type") THEN "output_type"
    ELSE IF output.output_type = "stream"
    THEN IF ~Has(output, "text") THEN "text"
         ELSE IF ~Has(output, "name") THEN "name" ELSE ""
    ELSE IF output.output_type \in {"display_data", "execute_result"}
    THEN IF ~Has(output, "data") THEN "data" ELSE ""
    ELSE IF output.output_type = "error"
    THEN IF ~Has(output, "ename") THEN "ename"
         ELSE IF ~Has(output, "evalue") THEN "evalue"
         ELSE IF ~Has(output, "traceback") THEN "traceback" ELSE ""
    ELSE ""

RECURSIVE FirstMissing(_)
FirstMissing(outs) ==
    IF outs = <<>> THEN ""
    ELSE IF MissingAttr(Head(outs)) # "" THEN MissingAttr(Head(outs))
    ELSE FirstMissing(Tail(outs))

\* The exception the extractor's loops raise on these cells.
RECURSIVE FirstRaise(_)
FirstRaise(cells) ==
    IF cells = <<>> THEN ""
    ELSE LET cell == Head(cells)
             here == IF ~Has(cell, "cell_type") THEN "cell_type"
                     ELSE IF HasOutputs(cell) THEN FirstMissing(cell.outputs)
                     ELSE ""
         IN  IF here # "" THEN here ELSE FirstRaise(Tail(cells))

\* The exception extract_outputs_from_notebook raises on an upload.
ExtractRaises(upload) ==
    IF upload.kind = "garbage" THEN NotJSONError ELSE FirstRaise(upload.cells)

\* if output.get('image_png') or output.get('image_jpeg'):
IsChart(output) == Truthy(output, "image_png") \/ Truthy(output, "image_jpeg")

Chart(output) ==
    [cell_index   |-> output.cell_index,
     output_index |-> output.output_index,
     image_data   |-> IF Truthy(output, "image_png") THEN output.image_png
                      ELSE output.image_jpeg,
     image_type   |-> IF Has(output, "image_type") THEN output.image_type ELSE "png"]

Charts(outs) ==
    LET sel == SelectSeq(outs, IsChart)
    IN  [i \in 1..Len(sel) |-> Chart(sel[i])]

\* An except clause that answers without the message.
CaughtWithoutMessage(app, message) ==
    IF app = "fastapi" THEN [status |-> 400, body |-> [detail |-> ""]]
    ELSE [status |-> 500, body |-> [error |-> ""]]

\* except Exception as e: return jsonify({'error': str(e)}), 500
\* except Exception as e: raise HTTPException(status_code=400, detail=str(e))
Caught(app, message) ==
    IF app = "fastapi" THEN [status |-> 400, body |-> [detail |-> message]]
    ELSE [status |-> 500, body |-> [error |-> message]]

ProcessBody(validation, outs) ==
    [validation |-> validation, outputs |-> outs, total_outputs |-> Len(outs),
     charts |-> Charts(outs), total_charts |-> Len(Charts(outs))]

\* tempfile.NamedTemporaryFile(suffix='.ipynb', delete=False): the one
\* request of a behaviour gets this name.
NamedTemporaryFile == "/tmp/tmp0.ipynb"

\* The temporary files left when the handler returns: the complete server
\* unlinks in a finally block, the small one after extraction and so only
\* when nothing was raised before.
Unlinked(app, raised, existing) ==
    IF app = "flask" \/ ~raised THEN existing \ {NamedTemporaryFile} ELSE existing

\* POST /process_notebook. validate_notebook runs pytest --nbval in a
\* subprocess and catches what that raises; its verdict is either.
process_notebook ==
    /\ request = NoRequest
    /\ \E app \in {"flask", "small"}, upload \in ProcessUploads, success \in BOOLEAN :
          LET exc == IF upload.kind = "none" THEN "" ELSE ExtractRaises(upload)
          IN  /\ request' = [app |-> app, endpoint |-> "process_notebook",
                             upload |-> upload, exc |-> exc]
              /\ response' =
                    IF upload.kind = "none"
                    THEN [status |-> 400, body |-> [error |-> "No notebook file provided"]]
                    ELSE IF exc # "" THEN Caught(app, exc)
                    ELSE [status |-> 200,
                          body |-> ProcessBody([success |-> success],
                                               extract_outputs_from_notebook(upload.cells))]
              /\ tmp_files' =
                    IF upload.kind = "none" THEN tmp_files
                    ELSE Unlinked(app, exc # "", tmp_files \cup {NamedTemporaryFile})
    /\ UNCHANGED <<doc, outputs, extract_pc, chartVars, spatialVars, apiVars, raceVars,
                   bridgeVars>>

\* The apps that have a /health route.
HealthApps == {"flask", "small", "pulto_api"}

HealthBody(app) ==
    CASE app = "flask"     -> [status |-> "healthy", service |-> "notebook-processor"]
      [] app = "small"     -> [status |-> "healthy"]
      [] app = "pulto_api" -> [status |-> "ok", features |-> "features"]

\* GET /health, of an app that is not in the middle of another request.
health ==
    /\ request = NoRequest \/ response # NoResponse
    /\ \E app \in HealthApps :
          /\ IF request = NoRequest THEN TRUE ELSE request.app = app
          /\ request' = [app |-> app, endpoint |-> "health", exc |-> ""]
          /\ response' = [status |-> 200, body |-> HealthBody(app)]
    /\ UNCHANGED <<doc, outputs, extract_pc, chartVars, spatialVars, serviceVars>>

\* allowed_file(filename)
allowed_file(filename) ==
    CASE filename = "nb.ipynb" -> TRUE
      [] filename = "nb.txt"   -> FALSE
      [] filename = ""         -> FALSE

ConvertNotebooks == { <<>> } \cup { <<c>> : c \in ChartCells }

\* The uploads posted to /convert/<name>; has_nbformat says whether the JSON
\* object has an 'nbformat' key.
ConvertUploads ==
    { [kind |-> "none"], [kind |-> "garbage", filename |-> "nb.ipynb"] }
    \cup { [kind |-> "notebook", filename |-> f, has_nbformat |-> TRUE, cells |-> <<>>] :
             f \in {"", "nb.txt"} }
    \cup { [kind |-> "notebook", filename |-> "nb.ipynb", has_nbformat |-> b, cells |-> n] :
             b \in BOOLEAN, n \in ConvertNotebooks }

\* The cells of the documents a VisionOS client exports, as the JSON has
\* them: the source is one string or a list of lines.
VisionCells ==
    { [cell_type |-> "code", source |-> StrSource(<<"plt.plot([1])">>),
       metadata |-> ("visionos_window" :> [id |-> "W1", type |-> "chart"])],
      [cell_type |-> "code",
       source |-> ListSource(<< <<"x=1", "\n">>, <<"plt.plot(x)">> >>),
       metadata |-> ("visionos_window" :> [id |-> "W2", type |-> "chart"])],
      [cell_type |-> "code", source |-> ListSource(<< <<"x=1">> >>),
       metadata |-> EmptyDict],
      [cell_type |-> "markdown", source |-> StrSource(<<"# h">>)] }

\* Documents whose metadata.visionos_export is truthy.
VisionUploads ==
    { [kind |-> "visionos", filename |-> "nb.ipynb", has_nbformat |-> TRUE,
       visionos_export |-> "v1", cells |-> cells] :
         cells \in SeqsUpTo(VisionCells, MaxCells) }

\* What the FastAPI server is posted: the file parameter is required, and the
\* file name and the nbformat key play no part.
FastUploads ==
    { u \in ConvertUploads :
        /\ u.kind # "none"
        /\ u.kind = "notebook" => (u.filename = "nb.ipynb" /\ u.has_nbformat) }
    \cup VisionUploads

\* str(e) of the TypeError that list + str raises.
ConcatTypeError == "can only concatenate list (not \"str\") to list"

PreviewLength == 100

\* cell.get("source", "")[:100] + "...": a slice of a list is a list, and
\* a list plus a string is a TypeError.  (The model's text is a sequence of
\* tokens, and the slice counts tokens.)
content_preview(source) ==
    IF source.form = "list"
    THEN [raised |-> ConcatTypeError]
    ELSE [raised |-> "",
          preview |-> SubSeq(source.text, 1,
                             IF Len(source.text) < PreviewLength THEN Len(source.text)
                             ELSE PreviewLength) \o <<"...">>]

\* cell.get("metadata", {}) has a visionos_window entry
IsWindow(cell) == Has(cell, "metadata") /\ Has(cell.metadata, "visionos_window")

\* The positions of the window cells, in order.
Windows(cells) == SelectSeq([p \in 1..Len(cells) |-> p], LAMBDA p : IsWindow(cells[p]))

\* The message of the exception handle_visionos_notebook raises: that of the
\* first window cell whose preview cannot be made, "" when there is none.
VisionRaises(cells) ==
    LET bad == SelectSeq(Windows(cells),
                         LAMBDA p : content_preview(cells[p].source).raised # "")
    IN  IF bad = <<>> THEN "" ELSE content_preview(cells[Head(bad)].source).raised

\* handle_visionos_notebook, when it does not raise (the timestamp left out)
handle_visionos_notebook(upload) ==
    LET windows == Windows(upload.cells)
    IN  [nbformat |-> 4, nbformat_minor |-> 5,
         metadata |-> [visionos_export |-> upload.visionos_export],
         cells |-> upload.cells,
         _processed_info |->
            [window_count |-> Len(windows),
             processed_cells |->
                [k \in 1..Len(windows) |->
                    [window_id |-> upload.cells[windows[k]].metadata.visionos_window.id,
                     window_type |-> upload.cells[windows[k]].metadata.visionos_window.type,
                     content_preview |->
                        content_preview(upload.cells[windows[k]].source).preview]]]]

\* The exception json.load(f) / json.loads(content) raises on an upload
\* that gets that far, or handle_visionos_notebook after it.
ConvertRaises(upload) ==
    IF upload.kind = "garbage" THEN JSONDecodeError
    ELSE IF upload.kind = "visionos" THEN VisionRaises(upload.cells)
    ELSE ""

\* The response convert_notebook gives before chart capture starts;
\* NoResponse when it goes on to chart capture.
ConvertEarly(app, upload) ==
    IF app = "flask"
    THEN IF upload.kind = "none"
         THEN [status |-> 400, body |-> [error |-> "No file provided"]]
         ELSE IF upload.filename = ""
         THEN [status |-> 400, body |-> [error |-> "No file selected"]]
         ELSE IF ~allowed_file(upload.filename)
         THEN [status |-> 400, body |-> [error |-> "Invalid file type"]]
         ELSE IF ConvertRaises(upload) # "" THEN Caught(app, ConvertRaises(upload))
         ELSE NoResponse
    ELSE IF ConvertRaises(upload) # "" THEN Caught(app, ConvertRaises(upload))
         ELSE IF upload.kind = "visionos"
         THEN [status |-> 200, body |-> handle_visionos_notebook(upload)]
         ELSE NoResponse

\* POST /convert/<name> up to the call of chart capture.
ConvertBegin ==
    /\ request = NoRequest
    /\ \E app \in {"flask", "fastapi"}, upload \in ConvertUploads \cup FastUploads :
          /\ app = "fastapi" => upload \in FastUploads
          /\ app = "flask" => upload \in ConvertUploads
          /\ request' = [app |-> app, endpoint |-> "convert", upload |-> upload,
                         exc |-> ConvertRaises(upload)]
          /\ response' = ConvertEarly(app, upload)
          /\ IF ConvertEarly(app, upload) = NoResponse
             THEN /\ variant' = app
                  /\ nb' = [r \in {1} |-> upload.cells]
                  /\ pc' = [r \in {1} |-> "loop"]
                  /\ cell_idx' = [r \in {1} |-> 1]
                  /\ chart_images' = [r \in {1} |-> EmptyDict]
                  /\ evalLog' = [r \in {1} |-> EmptyDict]
                  /\ exec_globals' = [r \in {1} |-> {}]
                  /\ UNCHANGED figs
             ELSE UNCHANGED chartVars
    /\ UNCHANGED <<doc, outputs, extract_pc, spatialVars, serviceVars>>

\* A convert request is in chart capture.
InConvert == request.endpoint = "convert" /\ response = NoResponse

ConvertResponse(app, upload, images) ==
    IF app = "flask"
    THEN IF upload.has_nbformat
         THEN [status |-> 200, body |-> [cells |-> upload.cells, metadata |-> EmptyDict]]
         ELSE IF images # EmptyDict
         THEN [status |-> 200, body |-> [charts |-> images]]
         ELSE [status |-> 200, body |-> [message |-> "No charts found in notebook"]]
    ELSE [status |-> 200, body |-> [charts |-> images]]

\* POST /convert/<name> after chart capture has returned.
ConvertEnd ==
    /\ InConvert /\ pc[1] = "done"
    /\ response' = ConvertResponse(request.app, request.upload, chart_images[1])
    /\ UNCHANGED <<doc, outputs, extract_pc, request, chartVars, spatialVars, serviceVars>>

InitHandlers == ExtractIdle /\ ChartIdle /\ SpatialIdle /\ ServiceIdle

NextHandlers ==
    \/ process_notebook
    \/ health
    \/ ConvertBegin
    \/ InConvert /\ FlaskLoop(1)
    \/ InConvert /\ FlaskExec(1)
    \/ InConvert /\ FlaskSavefig(1)
    \/ InConvert /\ FlaskClose(1)
    \/ InConvert /\ FastLoop(1)
    \/ InConvert /\ FastClear(1)
    \/ InConvert /\ FastExec(1)
    \/ InConvert /\ FastCapture(1)
    \/ InConvert /\ Return(1)
    \/ ConvertEnd

SpecHandlers == InitHandlers /\ [][NextHandlers]_vars

CodeCells(cells) == { p \in 1..Len(cells) : cells[p].cell_type = "code" }

\* C1: the extractor returns records only for code cells, for at most as many
\* distinct cells as there are code cells, in non-decreasing cell_index order
\* with output_index counting 0,1,2,... within a cell, each record being the
\* record of the output at that place of the document.
C1_ExtractOrder ==
    extract_pc = "done" =>
        /\ \A i \in 1..Len(outputs) :
              /\ outputs[i].cell_index + 1 \in CodeCells(doc)
              /\ Has(doc[outputs[i].cell_index + 1], "outputs")
              /\ outputs[i].output_index + 1
                    \in 1..Len(doc[outputs[i].cell_index + 1].outputs)
              /\ outputs[i].type =
                    doc[outputs[i].cell_index + 1].outputs[outputs[i].output_index + 1].output_type
        /\ Cardinality({ outputs[i].cell_index : i \in 1..Len(outputs) })
              <= Cardinality(CodeCells(doc))
        /\ Len(outputs) > 0 => outputs[1].output_index = 0
        /\ \A i \in 1..(Len(outputs) - 1) :
              \/ /\ outputs[i + 1].cell_index = outputs[i].cell_index
                 /\ outputs[i + 1].output_index = outputs[i].output_index + 1
              \/ /\ outputs[i + 1].cell_index > outputs[i].cell_index
                 /\ outputs[i + 1].output_index = 0

\* A markdown cell that carries outputs, then a code cell with two outputs.
C1_Witness ==
    /\ extract_pc = "done"
    /\ Len(doc) = 2
    /\ doc[1].cell_type = "markdown" /\ Has(doc[1], "outputs")
    /\ Len(outputs) = 2
    /\ outputs[2].cell_index = 1 /\ outputs[2].output_index = 1

\* The output of the document a record was built from.
SourceOutput(rec) == doc[rec.cell_index + 1].outputs[rec.output_index + 1]

IsDisplay(output) == output.output_type \in {"display_data", "execute_result"}

\* C12: the record of a display output that has both image/png and text/plain
\* carries the PNG payload as its image field, with image type png unless a
\* JPEG is there too, and keeps the plain text.
C12_ImageKeepsText ==
    extract_pc = "done" =>
        \A i \in 1..Len(outputs) :
            LET o == SourceOutput(outputs[i])
            IN  (IsDisplay(o) /\ Has(o.data, "image/png") /\ Has(o.data, "text/plain")) =>
                    /\ Has(outputs[i], "image_png")
                    /\ outputs[i].image_png = o.data["image/png"]
                    /\ Has(outputs[i], "text")
                    /\ outputs[i].text = o.data["text/plain"]
                    /\ ~Has(o.data, "image/jpeg") => outputs[i].image_type = "png"

\* An output with a PNG and a plain text, and nothing else, was extracted.
C12_Witness ==
    /\ extract_pc = "done" /\ Len(outputs) = 1
    /\ IsDisplay(SourceOutput(outputs[1]))
    /\ DOMAIN SourceOutput(outputs[1]).data = {"image/png", "text/plain"}
    /\ outputs[1].text = "3" /\ outputs[1].image_png = "PNG"

\* The places <<cell, output>> (0-based) of the error outputs of the code
\* cells of the document.
ErrorPlaces ==
    { pl \in UNION { { <<p - 1, q - 1>> : q \in 1..Len(doc[p].outputs) } :
                       p \in { c \in CodeCells(doc) : Has(doc[c], "outputs") } } :
        doc[pl[1] + 1].outputs[pl[2] + 1].output_type = "error" }

\* C13: every error output of a code cell yields exactly one record, and that
\* record's error name, value and traceback are the output's ename, evalue
\* and traceback, unchanged.
C13_ErrorVerbatim ==
    extract_pc = "done" =>
        \A pl \in ErrorPlaces :
            LET recs == { i \in 1..Len(outputs) :
                            outputs[i].cell_index = pl[1] /\ outputs[i].output_index = pl[2] }
                o == doc[pl[1] + 1].outputs[pl[2] + 1]
            IN  /\ Cardinality(recs) = 1
                /\ \A i \in recs :
                      /\ outputs[i].type = "error"
                      /\ Has(outputs[i], "error")
                      /\ outputs[i].error.name = o.ename
                      /\ outputs[i].error.value = o.evalue
                      /\ outputs[i].error.traceback = o.traceback

\* A cell with a stream output followed by an error output was extracted.
C13_Witness ==
    /\ extract_pc = "done"
    /\ <<0, 1>> \in ErrorPlaces
    /\ Len(outputs) = 2 /\ outputs[2].error.name = "ZeroDivisionError"
    /\ outputs[2].error.traceback = <<"tb1", "tb2">>

MentionsDataframe(s) ==
    s \in {"<DataFrame>", "<table class=\"dataframe\">", "<TABLE CLASS=\"DATAFRAME\">"}

Tagged(rec) == Has(rec, "is_dataframe") /\ rec.is_dataframe

\* C18 as stated: a record is tagged is_dataframe exactly when its plain text
\* or its HTML contains 'dataframe' in some letter case.
C18_TaggedTextOrHtml ==
    extract_pc = "done" =>
        \A i \in 1..Len(outputs) :
            IsDisplay(SourceOutput(outputs[i])) =>
                (Tagged(outputs[i]) <=>
                    \/ Has(outputs[i], "text") /\ MentionsDataframe(outputs[i].text)
                    \/ Has(outputs[i], "html") /\ MentionsDataframe(outputs[i].html))

\* C18: a record is tagged is_dataframe exactly when it has an HTML
\* representation that contains 'dataframe' in some letter case; the plain
\* text plays no part, and a record without HTML is never tagged.
C18_TaggedHtml ==
    extract_pc = "done" =>
        \A i \in 1..Len(outputs) :
            /\ Tagged(outputs[i]) <=>
                  (Has(outputs[i], "html") /\ MentionsDataframe(outputs[i].html))
            /\ Has(outputs[i], "is_dataframe") => outputs[i].is_dataframe

\* An upper-case DATAFRAME table was tagged, next to a plain text that does
\* not mention a dataframe.
C18_Witness ==
    /\ extract_pc = "done" /\ Len(outputs) = 1
    /\ Tagged(outputs[1])
    /\ outputs[1].html = "<TABLE CLASS=\"DATAFRAME\">"
    /\ Has(outputs[1], "text") /\ outputs[1].text = "3"

(***************************************************************************)
(* Request handlers: what the responses carry.                             *)
(***************************************************************************)
Processed == request.endpoint = "process_notebook" /\ response.status = 200

\* The output of the upload a record of the response was built from.
UploadedOutput(rec) ==
    request.upload.cells[rec.cell_index + 1].outputs[rec.output_index + 1]

\* C11: the record of a display output holds the one representation the
\* priority selects; when the output has both a PNG and a JPEG, the record's
\* image type is png and the chart built from the record carries the PNG
\* payload with image type png.
C11_SingleRepresentation ==
    LET Representations(rec) ==
            { k \in {"image_png", "image_jpeg", "json_data", "text", "html"} : Has(rec, k) }
        Preferred(data) ==
            IF Has(data, "image/png") THEN {"image_png"}
            ELSE IF Has(data, "image/jpeg") THEN {"image_jpeg"}
            ELSE IF Has(data, "application/json") THEN {"json_data"}
            ELSE IF Has(data, "text/plain") THEN {"text"}
            ELSE IF Has(data, "text/html") THEN {"html"}
            ELSE {}
    IN
    Processed =>
        \A i \in 1..Len(response.body.outputs) :
            LET rec == response.body.outputs[i]
                o == UploadedOutput(rec)
            IN  IsDisplay(o) =>
                    /\ Representations(rec) = Preferred(o.data)
                    /\ (Has(o.data, "image/png") /\ Has(o.data, "image/jpeg")) =>
                          /\ rec.image_type = "png"
                          /\ \A j \in 1..Len(response.body.charts) :
                                LET chart == response.body.charts[j]
                                IN  (chart.cell_index = rec.cell_index
                                     /\ chart.output_index = rec.output_index) =>
                                        /\ chart.image_data = o.data["image/png"]
                                        /\ chart.image_type = "png"

\* The message a response reports, "" when it reports none.
ErrorMessage(resp) ==
    IF Has(resp.body, "error") THEN resp.body.error
    ELSE IF Has(resp.body, "detail") THEN resp.body.detail
    ELSE ""

\* C14: a process_notebook request for a malformed notebook (a code cell has
\* no outputs list, or an output of a code cell lacks its type or a field that
\* goes with its type) ends with an error status and a reported error, and
\* its response has no outputs list.
C14_MalformedReported ==
    LET Malformed(cells) ==
            \E p \in 1..Len(cells) :
                /\ Has(cells[p], "cell_type") /\ cells[p].cell_type = "code"
                /\ \/ ~Has(cells[p], "outputs")
                   \/ /\ Has(cells[p], "outputs")
                      /\ \E q \in 1..Len(cells[p].outputs) :
                            MissingAttr(cells[p].outputs[q]) # ""
    IN
    (request.endpoint = "process_notebook" /\ request.upload.kind = "notebook"
     /\ Malformed(request.upload.cells)) =>
        /\ response.status >= 400
        /\ ErrorMessage(response) # ""
        /\ ~Has(response.body, "outputs")

C20_HealthHealthy ==
    request.endpoint = "health" =>
        /\ response.status = 200
        /\ response.body.status = "healthy"

(***************************************************************************)
(* Spatial metadata merge: what an update leaves alone.                    *)
(***************************************************************************)
Updated == lastCall.op = "update"

\* Everything of a cell but its metadata block.
SameButMetadata(new, old) ==
    /\ DOMAIN new \ {"metadata"} = DOMAIN old \ {"metadata"}
    /\ \A k \in DOMAIN old \ {"metadata"} : new[k] = old[k]

\* The cell is the old cell with the payload under metadata.spatial.
MergedInto(new, old, spatial_data) ==
    /\ SameButMetadata(new, old)
    /\ Has(new, "metadata")
    /\ Has(new.metadata, "spatial") /\ new.metadata.spatial = spatial_data
    /\ LET oldkeys == IF Has(old, "metadata") THEN DOMAIN old.metadata ELSE {}
       IN  /\ DOMAIN new.metadata = oldkeys \cup {"spatial"}
           /\ \A k \in oldkeys \ {"spatial"} : new.metadata[k] = old.metadata[k]

InRange(i, n) == 0 <= i /\ i < n

\* C8: an update of the in-range cell i puts the payload under
\* cells[i].metadata.spatial and changes nothing else of the document, as
\* read back from the file.
C8_UpdateOneFrame ==
    (Updated /\ ~lastCall.target.all
       /\ InRange(lastCall.target.cell_index, Len(lastCall.before))) =>
        LET old == NbRead(lastCall.before)
            new == NbRead(store.cells)
            p == lastCall.target.cell_index + 1
        IN  /\ ~lastCall.raised
            /\ Len(new) = Len(old)
            /\ \A q \in 1..Len(old) : q # p => new[q] = old[q]
            /\ MergedInto(new[p], old[p], lastCall.spatial_data)

\* The first cell of a two-cell file, which had tags and a source given as
\* lines, was updated.
C8_Witness ==
    /\ Updated /\ ~lastCall.target.all /\ lastCall.target.cell_index = 0
    /\ Len(lastCall.before) = 2
    /\ Has(lastCall.before[1], "metadata")
    /\ Has(lastCall.before[1].metadata, "tags")
    /\ lastCall.before[1].source.form = "list"
    /\ lastCall.before[2].source.form = "str"
    /\ lastCall.spatial_data = "P2"

\* C9: an update with a cell index outside 0..n-1 (too large, or negative)
\* changes no cell of the stored document and reports no error.
C9_OutOfRangeNoOp ==
    (Updated /\ ~lastCall.target.all
       /\ ~InRange(lastCall.target.cell_index, Len(lastCall.before))) =>
        /\ ~lastCall.raised
        /\ lastCall.via = "endpoint" => lastCall.status = 200
        /\ NbRead(store.cells) = NbRead(lastCall.before)

\* C10: an update of all cells puts the payload under metadata.spatial of
\* every cell and changes nothing else: the number and order of the cells and
\* each cell's type, source, outputs and other metadata keys stay.
C10_UpdateAllFrame ==
    (Updated /\ lastCall.target.all) =>
        LET old == NbRead(lastCall.before)
            new == NbRead(store.cells)
        IN  /\ ~lastCall.raised
            /\ Len(new) = Len(old)
            /\ \A q \in 1..Len(old) : MergedInto(new[q], old[q], lastCall.spatial_data)

\* Both cells of a two-cell file were updated, one without a metadata block
\* and one that already had a placement.
C10_Witness ==
    /\ Updated /\ lastCall.target.all
    /\ Len(lastCall.before) = 2
    /\ ~Has(lastCall.before[1], "metadata")
    /\ Has(lastCall.before[2], "metadata")
    /\ Has(lastCall.before[2].metadata, "spatial")
    /\ lastCall.before[2].metadata.spatial # lastCall.spatial_data

(***************************************************************************)
(* Chart capture: what a request did to each cell.                         *)
(***************************************************************************)
Requests == DOMAIN nb

\* exec was called on cell c of request r.
Evaluated(r, c) == Has(evalLog[r], c) /\ Has(evalLog[r][c], "raised")

\* The cell was evaluated without raising and the loop has finished with it.
Captured(r, c) ==
    Evaluated(r, c) /\ ~evalLog[r][c].raised /\ evalLog[r][c].handled

\* The image list of the cell in the returned mapping (empty without a key).
Images(r, c) == IF Has(chart_images[r], c) THEN chart_images[r][c] ELSE <<>>

\* C2: a code cell whose source has none of the plotting keywords
\* (case-insensitively) is never evaluated and gets no images.
C2_NoKeywordNoEval ==
    \A r \in Requests : \A c \in 1..Len(nb[r]) :
        (nb[r][c].cell_type = "code" /\ ~PlotLike(nb[r][c].source)) =>
            ~Evaluated(r, c) /\ Images(r, c) = <<>>

\* C3: the figure registry is empty when a cell's evaluation starts and empty
\* again once the cell has been handled, also when the evaluation raised; so
\* every image of a cell renders a figure of that cell.
C3_RegistryClean ==
    \A r \in Requests : \A c \in DOMAIN evalLog[r] :
        /\ evalLog[r][c].start = <<>>
        /\ evalLog[r][c].handled => evalLog[r][c].after = <<>>
        /\ \A i \in 1..Len(Images(r, c)) :
              Images(r, c)[i].req = r /\ Images(r, c)[i].cell = c

\* The cells the loop of the running server hands to exec.
Eligible(cell) ==
    /\ cell.cell_type = "code"
    /\ variant = "flask" => (cell.source # <<>> /\ PlotLike(cell.source))

C6_OneFigureOneImage ==
    \A r \in Requests : \A c \in DOMAIN evalLog[r] :
        (Captured(r, c) /\ evalLog[r][c].made = 1 /\ PlotLike(nb[r][c].source)) =>
            /\ Images(r, c) = <<NewFigure(r, c, "exec")>>
            /\ evalLog[r][c].after = <<>>

\* A cell that only plots, on an empty registry, was captured.
C6_Witness ==
    \E c \in DOMAIN evalLog[1] :
        /\ Captured(1, c) /\ evalLog[1][c].made = 1
        /\ nb[1][c].source = <<"plt.plot([1])">>
        /\ pc[1] = "done"

\* C7: a plot-like cell whose evaluation leaves k figures open gets exactly
\* k images, one per open figure in figure order (none when k = 0).
C7_ImagePerFigure ==
    \A r \in Requests : \A c \in DOMAIN evalLog[r] :
        (Captured(r, c) /\ PlotLike(nb[r][c].source)) =>
            Images(r, c) = evalLog[r][c].left

\* C4: with two requests interleaving, no image of a request renders a figure
\* that the other request's cell created, and a figure a cell created is not
\* closed by the other request before it is captured: the image of a cell
\* that created figures renders that cell's own figure.
C4_CriticalSection ==
    \A r \in Requests : \A c \in DOMAIN chart_images[r] :
        \A i \in 1..Len(chart_images[r][c]) :
            /\ chart_images[r][c][i].req = r
            /\ evalLog[r][c].made > 0 =>
                  chart_images[r][c][i] = NewFigure(r, c, "exec")

\* What a response's image list shows, told apart from the request that
\* returned it: for each image, whether the figure it renders was created by
\* the request itself, and in which cell and by which call.
Rendered(r) ==
    [c \in DOMAIN chart_images[r] |->
        [i \in 1..Len(chart_images[r][c]) |->
            [own  |-> chart_images[r][c][i].req = r,
             cell |-> chart_images[r][c][i].cell,
             by   |-> chart_images[r][c][i].by]]]

\* C16: a request's chart-capture result depends on its document alone: the
\* same document handed in after a history of no requests and after a history
\* of one earlier request gives the same images.
C16_Stateless ==
    (pc[1] = "done" /\ pc[2] = "done") => Rendered(2) = Rendered(1)

\* A name is read by a statement of the source before any statement of the
\* same source has bound it.
ReadsUnbound(source, name) ==
    \E i \in 1..Len(source) :
        /\ name \in Uses(source[i])
        /\ \A j \in 1..(i - 1) : name \notin Binds(source[j])

\* C17: the evaluation of a cell starts in a dict that holds the preset names
\* and nothing else, so a cell that reads x before binding it raises, whatever
\* earlier cells of the request or of the request before it have bound.
C17_FreshNamespace ==
    \A r \in Requests :
        /\ pc[r] = "exec" => exec_globals[r] = Preset(variant)
        /\ \A c \in DOMAIN evalLog[r] :
              (Evaluated(r, c) /\ ReadsUnbound(nb[r][c].source, "x")) =>
                  evalLog[r][c].raised

\* In the second request, the first cell bound x and used it, and the second
\* cell then read x and raised.
C17_Witness ==
    /\ pc[2] = "done" /\ Len(nb[2]) = 2
    /\ nb[2][1].source = <<"x=1", "plt.plot(x)">>
    /\ Evaluated(2, 1) /\ ~evalLog[2][1].raised
    /\ nb[2][2].source = <<"plt.plot(x)">>
    /\ Evaluated(2, 2) /\ evalLog[2][2].raised

(***************************************************************************)
(* Pulto API (pulto-backend-updated/services/api/app): users and tokens.   *)
(*                                                                         *)
(* A table is the set of its rows; ids come from a sequence and are never  *)
(* handed out twice. A JWT is the record of its claims and of the key that *)
(* signed it: jwt.decode accepts it when the key is the server's secret,   *)
(* issuer and audience are the server's, and the expiry is ahead. No email *)
(* is "", no Authorization header and no token are the empty record.       *)
(***************************************************************************)
JWT_SECRET == "dev-secret-change-me"
JWT_ISSUER == "pulto-backend"
JWT_AUDIENCE == "pulto-clients"

\* settings.JWT_EXPIRES_MIN * 60, in ticks of the clock.
JWT_EXPIRES == 2

Emails == {"A@x.io", "a@x.io", "b@x.io", ""}

\* f"dev+{secrets.token_hex(6)}@example.local"
RandomEmails == {"dev+0f3a@example.local"}

NoHeader == EmptyDict

NoToken == EmptyDict

\* int(data["sub"]) of str(user.id)
ParseInt(str) == CHOOSE n \in 0..(MaxUsers + 1) : ToString(n) = str

\* A sub that keeps the letter case of the email.
DevSubCaseSensitive(email) == <<"dev", email>>

\* sub = f"dev::{email.lower()}"
DevSub(email) == <<"dev", Lower(email)>>

\* ensure_user_by_email with an email that is not empty: the table, the id
\* sequence and the row it returns.
ensure_user_by_email(table, seq, email) ==
    LET found == { u \in table : u.sub = DevSub(email) }
        row == [id |-> seq, sub |-> DevSub(email), email |-> email]
    IN  IF found # {}
        THEN [users |-> table, next |-> seq, user |-> CHOOSE u \in found : TRUE]
        ELSE [users |-> table \cup {row}, next |-> seq + 1, user |-> row]

issue_access_token(user, t) ==
    [sub |-> ToString(user.id), iss |-> JWT_ISSUER, aud |-> JWT_AUDIENCE,
     iat |-> t, exp |-> t + JWT_EXPIRES, key |-> JWT_SECRET]

\* A decode that does not look at the expiry.
DecodesIgnoringExpiry(jwt, t) ==
    /\ DOMAIN jwt = {"sub", "iss", "aud", "iat", "exp", "key"}
    /\ jwt.key = JWT_SECRET /\ jwt.iss = JWT_ISSUER /\ jwt.aud = JWT_AUDIENCE

\* jwt.decode(token, JWT_SECRET, algorithms=["HS256"], audience=..., issuer=...)
\* returns rather than raises.
Decodes(jwt, t) ==
    /\ DOMAIN jwt = {"sub", "iss", "aud", "iat", "exp", "key"}
    /\ jwt.key = JWT_SECRET /\ jwt.iss = JWT_ISSUER /\ jwt.aud = JWT_AUDIENCE
    /\ t < jwt.exp

_parse_auth_header(auth_header) ==
    IF auth_header = NoHeader THEN NoToken
    ELSE IF Lower(auth_header.typ) # "bearer" THEN NoToken
    ELSE auth_header.token

require_user(authorization, t, table) ==
    LET jwt == _parse_auth_header(authorization)
    IN  IF jwt = NoToken THEN [status |-> 401, detail |-> "Missing bearer token"]
        ELSE IF ~Decodes(jwt, t) THEN [status |-> 401, detail |-> "Invalid token"]
        ELSE LET found == { u \in table : u.id = ParseInt(jwt.sub) }
             IN  IF found = {} THEN [status |-> 401, detail |-> "User not found"]
                 ELSE [status |-> 200, user |-> CHOOSE u \in found : TRUE]

\* What a client may send as Authorization, holding the access token jwt: the
\* token under several schemes, the token re-signed with another key, a
\* string that is no JWT, a scheme without a token, or nothing.
Headers(jwt) ==
    { NoHeader, [typ |-> "Bearer", token |-> NoToken],
      [typ |-> "Bearer", token |-> [key |-> "none"]] }
    \cup (IF jwt = NoToken THEN {}
          ELSE { [typ |-> "Bearer", token |-> jwt], [typ |-> "bearer", token |-> jwt],
                 [typ |-> "Basic", token |-> jwt],
                 [typ |-> "Bearer", token |-> [jwt EXCEPT !.key = "guessed"]] })

\* POST /auth/dev (ENABLE_DEV_LOGIN is on, its default). The handler does not
\* await between the query and the commit.
auth_dev ==
    \E given \in Emails, random \in RandomEmails :
        LET email == IF given = "" THEN random ELSE given
            r == ensure_user_by_email(users, next_id.users, email)
        IN  /\ r.next <= MaxUsers + 1
            /\ users' = r.users
            /\ next_id' = [next_id EXCEPT !.users = r.next]
            /\ token' = [jwt |-> issue_access_token(r.user, now), user |-> r.user]
            /\ apiCall' = [op |-> "auth_dev", email |-> given, user |-> r.user,
                           before |-> users, after |-> r.users, status |-> 200]
            /\ UNCHANGED <<now, notebooks, assets, files, jobs>>
            /\ UNCHANGED <<extractVars, chartVars, spatialVars, tmpVars, raceVars, bridgeVars>>

\* GET /me: Depends(auth.require_user)
me ==
    \E authorization \in Headers(IF token = NoToken THEN NoToken ELSE token.jwt) :
        /\ apiCall' = [op |-> "me", header |-> authorization, at |-> now,
                       issued |-> token, before |-> users,
                       result |-> require_user(authorization, now, users)]
        /\ UNCHANGED <<users, next_id, now, token, notebooks, assets, files, jobs>>
        /\ UNCHANGED <<extractVars, chartVars, spatialVars, tmpVars, raceVars, bridgeVars>>

\* time.time() moves on.
Tick ==
    /\ now < MaxTime
    /\ now' = now + 1
    /\ UNCHANGED <<users, next_id, token, notebooks, assets, files, jobs, apiCall>>
    /\ UNCHANGED <<extractVars, chartVars, spatialVars, tmpVars, raceVars, bridgeVars>>

\* A row of the users table is removed by whoever administers the database.
DeleteUser ==
    /\ \E u \in users : users' = users \ {u}
    /\ UNCHANGED <<next_id, now, token, notebooks, assets, files, jobs, apiCall>>
    /\ UNCHANGED <<extractVars, chartVars, spatialVars, tmpVars, raceVars, bridgeVars>>

InitAuth ==
    /\ users = {} /\ next_id = [users |-> 1, notebooks |-> 1, assets |-> 1, jobs |-> 1]
    /\ now = 0 /\ token = NoToken
    /\ notebooks = {} /\ assets = {} /\ files = EmptyDict /\ jobs = {}
    /\ apiCall = [op |-> "none"]
    /\ ExtractIdle /\ ChartIdle /\ SpatialIdle
    /\ TmpIdle /\ RaceIdle /\ BridgeIdle

NextAuth == auth_dev \/ me \/ Tick \/ DeleteUser

SpecAuth == InitAuth /\ [][NextAuth]_vars

\* C24: GET /me with 'Bearer <token>', the token being the one issued last,
\* before its expiry and with its user still in the table, is answered with
\* exactly the user the token was issued for; every other header (none,
\* another scheme, no token, a token that does not verify or has expired, a
\* token whose user is gone) is answered with 401 and no user.
C24_TokenRoundTrip ==
    apiCall.op = "me" =>
        LET h == apiCall.header
            r == apiCall.result
            bearer == /\ h # NoHeader /\ h.typ \in {"Bearer", "bearer"}
                      /\ apiCall.issued # NoToken /\ h.token = apiCall.issued.jwt
            good == /\ bearer
                    /\ apiCall.at < apiCall.issued.jwt.iat + JWT_EXPIRES
                    /\ apiCall.issued.user \in apiCall.before
        IN  /\ good => (r.status = 200 /\ r.user = apiCall.issued.user)
            /\ ~good => (r.status = 401 /\ ~Has(r, "user"))

\* The token was accepted one tick before its expiry.
C24_Witness ==
    /\ apiCall.op = "me" /\ apiCall.result.status = 200
    /\ apiCall.at = apiCall.issued.jwt.exp - 1 /\ apiCall.at > 0
    /\ apiCall.result.user = apiCall.issued.user

MaxNotebooks == 2

MaxAssets == 1

MaxJobs == 1

S3_BUCKET_NOTEBOOKS == "pulto-notebooks"

S3_BUCKET_ASSETS == "pulto-assets"

ALLOWED_POINTCLOUD_EXTS == {".ply", ".pcd", ".las", ".laz", ".xyz", ".pts",
                            ".obj", ".stl", ".glb", ".gltf", ".txt"}

\* The users two dev logins created.
ApiUsers ==
    { [id |-> 1, sub |-> DevSub("a@x.io"), email |-> "a@x.io"],
      [id |-> 2, sub |-> DevSub("b@x.io"), email |-> "b@x.io"] }

NotebookNames == {"a.ipynb", "B.IPYNB", "a.txt"}

AssetNames == {"c.ply", "c.bin"}

\* file.filename.lower().endswith(".ipynb")
EndsWithIpynb(filename) == filename \in {"a.ipynb", "B.IPYNB"}

\* os.path.splitext(name)[1].lower()
SplitExtLower(name) ==
    CASE name = "c.ply" -> ".ply"
      [] name = "c.bin" -> ".bin"
      [] OTHER -> ""

\* The notebook files the clients upload.
ApiNotebookFiles ==
    { << [cell_type |-> "code", source |-> StrSource(<<"x=1">>), outputs |-> <<>>] >>,
      << [cell_type |-> "code", source |-> ListSource(<< <<"a", "\n">>, <<"b">> >>),
          outputs |-> <<>>],
         [cell_type |-> "markdown", source |-> ListSource(<< <<"# h">> >>)] >> }

AssetContents == {"points1", "points2"}

NoRow == EmptyDict

\* session.get(Model, id): the row or None
session_get(table, id) ==
    IF \E row \in table : row.id = id
    THEN CHOOSE row \in table : row.id = id
    ELSE NoRow

\* (variant: only a missing row is refused)
Missing(obj, user_id) == obj = NoRow

\* `not obj or obj.user_id != user.id`
NotOwned(obj, user_id) == obj = NoRow \/ obj.user_id # user_id

\* f"{user.id}/notebooks/{file.filename}" in the notebooks bucket
NotebookKey(user, filename) ==
    <<S3_BUCKET_NOTEBOOKS, ToString(user.id), "notebooks", filename>>

\* os.path.join("/data/notebooks", f"user{user.id}_{file.filename}")
LocalPath(user, filename) ==
    <<"/data/notebooks", "user", ToString(user.id), filename>>

\* f"{user.id}/{kind}/{name}" in the assets bucket
AssetKey(user, kind, name) == <<S3_BUCKET_ASSETS, ToString(user.id), kind, name>>

\* normalize_cell: "".join over a string gives the string, over a list of
\* lines their concatenation; cell.get("outputs") is None without the key.
normalize_cell(cell) ==
    [cell_type |-> cell.cell_type,
     source |-> IF cell.source.form = "list" THEN Join(cell.source.lines)
                ELSE cell.source.text,
     outputs |-> IF Has(cell, "outputs") THEN cell.outputs ELSE "None"]

\* extract_cells_from_path: nbformat.read, then normalize_cell on each cell
\* (whose source nbformat has made one string).
extract_cells(file) ==
    LET cells == NbRead(file)
    IN  [p \in 1..Len(cells) |->
            normalize_cell([cells[p] EXCEPT !.source = StrSource(cells[p].source)])]

extract_cells_from_path(disk, path) == extract_cells(disk[path])

\* NotebookClient.execute: every code cell gets the outputs of its run.
Executed(cells) ==
    [p \in 1..Len(cells) |->
        IF cells[p].cell_type = "code"
        THEN [cells[p] EXCEPT !.outputs = <<StreamOutput>>]
        ELSE cells[p]]

\* execute_notebook: the file at `path` after nbformat.write(nb, path)
execute_notebook(disk, path) == NbWrite(Executed(NbRead(disk[path])))

\* Notebook.to_dict (created_at left out: the model has no wall clock here)
NotebookOut(row) ==
    [id |-> row.id, user_id |-> row.user_id, filename |-> row.filename,
     bucket |-> row.bucket, object_key |-> row.object_key]

JobId(n) == <<"job", n>>

JobIds == { JobId(n) : n \in 1..(MaxJobs + 1) }

\* tasks.get_job: celery answers PENDING for an id it has never seen.
tasks_get_job(queue, job_id) ==
    LET known == { j \in queue : j.id = job_id }
        status == IF known = {} THEN "pending"
                  ELSE (CHOOSE j \in known : TRUE).status
    IN  IF status = "success"
        THEN [id |-> job_id, status |-> status, detail |-> "completed"]
        ELSE [id |-> job_id, status |-> status]

\* POST /uploads/notebooks -> storage.save_notebook
upload_notebook ==
    \E user \in users, filename \in NotebookNames, content \in ApiNotebookFiles :
        IF ~EndsWithIpynb(filename)
        THEN /\ apiCall' = [op |-> "upload_notebook", user |-> user, status |-> 400,
                            body |-> [detail |-> "File must be a .ipynb notebook"]]
             /\ UNCHANGED <<users, next_id, now, token, notebooks, assets, files, jobs>>
             /\ UNCHANGED <<extractVars, chartVars, spatialVars, tmpVars, raceVars, bridgeVars>>
        ELSE LET object_key == NotebookKey(user, filename)
                 local_path == LocalPath(user, filename)
                 row == [id |-> next_id.notebooks, user_id |-> user.id,
                         filename |-> filename, bucket |-> S3_BUCKET_NOTEBOOKS,
                         object_key |-> object_key, local_path |-> local_path,
                         uploaded |-> content]
             IN  /\ next_id.notebooks <= MaxNotebooks
                 /\ files' = Put(Put(files, object_key, content), local_path, content)
                 /\ notebooks' = notebooks \cup {row}
                 /\ next_id' = [next_id EXCEPT !.notebooks = @ + 1]
                 /\ apiCall' = [op |-> "upload_notebook", user |-> user,
                                status |-> 200, body |-> NotebookOut(row)]
                 /\ UNCHANGED <<users, now, token, assets, jobs>>
                 /\ UNCHANGED <<extractVars, chartVars, spatialVars, tmpVars, raceVars, bridgeVars>>

\* POST /uploads/pointclouds -> storage.save_asset(kind="pointcloud")
upload_pointcloud ==
    \E user \in users, name \in AssetNames, content \in AssetContents :
        IF SplitExtLower(name) \notin ALLOWED_POINTCLOUD_EXTS
        THEN /\ apiCall' = [op |-> "upload_pointcloud", user |-> user, status |-> 400,
                            body |-> [detail |-> "Unsupported point cloud extension"]]
             /\ UNCHANGED <<users, next_id, now, token, notebooks, assets, files, jobs>>
             /\ UNCHANGED <<extractVars, chartVars, spatialVars, tmpVars, raceVars, bridgeVars>>
        ELSE LET object_key == AssetKey(user, "pointcloud", name)
                 row == [id |-> next_id.assets, user_id |-> user.id,
                         kind |-> "pointcloud", filename |-> name,
                         bucket |-> S3_BUCKET_ASSETS, object_key |-> object_key]
             IN  /\ next_id.assets <= MaxAssets
                 /\ files' = Put(files, object_key, content)
                 /\ assets' = assets \cup {row}
                 /\ next_id' = [next_id EXCEPT !.assets = @ + 1]
                 /\ apiCall' = [op |-> "upload_pointcloud", user |-> user,
                                status |-> 200, body |-> row]
                 /\ UNCHANGED <<users, now, token, notebooks, jobs>>
                 /\ UNCHANGED <<extractVars, chartVars, spatialVars, tmpVars, raceVars, bridgeVars>>

\* GET /assets/{asset_id}/download
download_asset ==
    \E user \in users, asset_id \in 1..(MaxAssets + 1) :
        LET obj == session_get(assets, asset_id)
        IN  /\ apiCall' =
                  IF NotOwned(obj, user.id)
                  THEN [op |-> "download_asset", user |-> user, id |-> asset_id,
                        queued |-> {}, status |-> 404, body |-> [detail |-> "Not found"]]
                  ELSE [op |-> "download_asset", user |-> user, id |-> asset_id,
                        queued |-> {}, status |-> 200,
                        body |-> [content |-> files[obj.object_key],
                                  filename |-> obj.filename]]
            /\ UNCHANGED <<users, next_id, now, token, notebooks, assets, files, jobs>>
            /\ UNCHANGED <<extractVars, chartVars, spatialVars, tmpVars, raceVars, bridgeVars>>

\* GET /notebooks/{nb_id}
get_notebook ==
    \E user \in users, nb_id \in 1..(MaxNotebooks + 1) :
        LET row == session_get(notebooks, nb_id)
        IN  /\ apiCall' =
                  IF NotOwned(row, user.id)
                  THEN [op |-> "get_notebook", user |-> user, id |-> nb_id,
                        queued |-> {}, status |-> 404,
                        body |-> [detail |-> "Notebook not found"]]
                  ELSE [op |-> "get_notebook", user |-> user, id |-> nb_id,
                        queued |-> {}, status |-> 200, body |-> NotebookOut(row)]
            /\ UNCHANGED <<users, next_id, now, token, notebooks, assets, files, jobs>>
            /\ UNCHANGED <<extractVars, chartVars, spatialVars, tmpVars, raceVars, bridgeVars>>

\* GET /notebooks/{nb_id}/cells
get_notebook_cells ==
    \E user \in users, nb_id \in 1..(MaxNotebooks + 1) :
        LET row == session_get(notebooks, nb_id)
        IN  /\ apiCall' =
                  IF NotOwned(row, user.id)
                  THEN [op |-> "get_notebook_cells", user |-> user, id |-> nb_id,
                        queued |-> {}, status |-> 404,
                        body |-> [detail |-> "Notebook not found"]]
                  ELSE [op |-> "get_notebook_cells", user |-> user, id |-> nb_id,
                        queued |-> {}, status |-> 200,
                        body |-> [notebook_id |-> row.id,
                                  cells |-> extract_cells_from_path(files, row.local_path)]]
            /\ UNCHANGED <<users, next_id, now, token, notebooks, assets, files, jobs>>
            /\ UNCHANGED <<extractVars, chartVars, spatialVars, tmpVars, raceVars, bridgeVars>>

\* tasks.queue_notebook_execution: checks the owner again in its own session,
\* then execute_notebook_task.delay(nb.local_path)
queue_notebook_execution(table, seq, nb_id, user_id) ==
    LET row == session_get(table, nb_id)
    IN  IF NotOwned(row, user_id)
        THEN [raised |-> TRUE, queued |-> {}]
        ELSE [raised |-> FALSE, id |-> JobId(seq),
              queued |-> {[id |-> JobId(seq), path |-> row.local_path,
                           status |-> "pending"]}]

\* POST /notebooks/{nb_id}/run
run_notebook ==
    \E user \in users, nb_id \in 1..(MaxNotebooks + 1) :
        LET row == session_get(notebooks, nb_id)
            q == queue_notebook_execution(notebooks, next_id.jobs, nb_id, user.id)
        IN  IF NotOwned(row, user.id)
            THEN /\ apiCall' = [op |-> "run_notebook", user |-> user, id |-> nb_id,
                                queued |-> {}, status |-> 404,
                                body |-> [detail |-> "Notebook not found"]]
                 /\ UNCHANGED <<users, next_id, now, token, notebooks, assets, files, jobs>>
                 /\ UNCHANGED <<extractVars, chartVars, spatialVars, tmpVars, raceVars, bridgeVars>>
            ELSE /\ next_id.jobs <= MaxJobs
                 /\ jobs' = jobs \cup q.queued
                 /\ next_id' = [next_id EXCEPT !.jobs = IF q.raised THEN @ ELSE @ + 1]
                 /\ apiCall' =
                       IF q.raised
                       THEN [op |-> "run_notebook", user |-> user, id |-> nb_id,
                             queued |-> {}, status |-> 500,
                             body |-> [detail |-> "Internal Server Error"]]
                       ELSE [op |-> "run_notebook", user |-> user, id |-> nb_id,
                             queued |-> q.queued, status |-> 200,
                             body |-> [id |-> q.id, status |-> "queued"]]
                 /\ UNCHANGED <<users, now, token, notebooks, assets, files>>
                 /\ UNCHANGED <<extractVars, chartVars, spatialVars, tmpVars, raceVars, bridgeVars>>

\* The celery worker runs execute_notebook_task for a queued job.
execute_notebook_task ==
    \E job \in jobs :
        /\ job.status = "pending"
        /\ files' = Put(files, job.path, execute_notebook(files, job.path))
        /\ jobs' = (jobs \ {job}) \cup {[job EXCEPT !.status = "success"]}
        /\ UNCHANGED <<users, next_id, now, token, notebooks, assets, apiCall>>
        /\ UNCHANGED <<extractVars, chartVars, spatialVars, tmpVars, raceVars, bridgeVars>>

\* GET /jobs/{job_id}: no require_user here
get_job ==
    \E job_id \in JobIds :
        LET info == tasks_get_job(jobs, job_id)
        IN  /\ apiCall' =
                  IF info = EmptyDict
                  THEN [op |-> "get_job", job_id |-> job_id,
                        known |-> (\E j \in jobs : j.id = job_id),
                        status |-> 404, body |-> [detail |-> "Job not found"]]
                  ELSE [op |-> "get_job", job_id |-> job_id,
                        known |-> (\E j \in jobs : j.id = job_id),
                        status |-> 200, body |-> info]
            /\ UNCHANGED <<users, next_id, now, token, notebooks, assets, files, jobs>>
            /\ UNCHANGED <<extractVars, chartVars, spatialVars, tmpVars, raceVars, bridgeVars>>

InitApi ==
    /\ users = ApiUsers
    /\ next_id = [users |-> 3, notebooks |-> 1, assets |-> 1, jobs |-> 1]
    /\ now = 0 /\ token = NoToken
    /\ notebooks = {} /\ assets = {} /\ files = EmptyDict /\ jobs = {}
    /\ apiCall = [op |-> "none"]
    /\ ExtractIdle /\ ChartIdle /\ SpatialIdle
    /\ TmpIdle /\ RaceIdle /\ BridgeIdle

NextApi ==
    \/ upload_notebook \/ upload_pointcloud \/ download_asset
    \/ get_notebook \/ get_notebook_cells \/ run_notebook
    \/ execute_notebook_task \/ get_job

SpecApi == InitApi /\ [][NextApi]_vars

\* C23: a read of a notebook, a read of its cells, a run request and an asset
\* download answered 200 found a row with the requested id whose user_id is
\* the caller's id; when there is no such row the answer is 404 with nothing
\* but the detail, and no job was queued.  (Rows are never changed or
\* removed, so the tables of the current state decide both directions.)
C23_OwnerOnly ==
    apiCall.op \in {"get_notebook", "get_notebook_cells", "run_notebook", "download_asset"} =>
        LET table == IF apiCall.op = "download_asset" THEN assets ELSE notebooks
            owned == \E row \in table : row.id = apiCall.id /\ row.user_id = apiCall.user.id
        IN  /\ apiCall.status = 200 => owned
            /\ ~owned => /\ apiCall.status = 404
                         /\ DOMAIN apiCall.body = {"detail"}
                         /\ apiCall.queued = {}
            /\ apiCall.queued # {} => owned /\ apiCall.queued \subseteq
                                       { j \in [id : JobIds, path : DOMAIN files,
                                                status : {"pending"}] :
                                           \E row \in notebooks :
                                               /\ row.id = apiCall.id
                                               /\ row.local_path = j.path }

\* The other user's notebook exists, and the request for its cells got 404.
C23_Witness ==
    /\ apiCall.op = "get_notebook_cells" /\ apiCall.status = 404
    /\ \E row \in notebooks : row.id = apiCall.id /\ row.user_id # apiCall.user.id

\* C25: GET /jobs/{job_id} is answered 200 exactly for the ids of queued
\* jobs, and 404 'Job not found' for every other id.
C25_UnknownJobNotFound ==
    apiCall.op = "get_job" =>
        /\ apiCall.status = 200 <=> apiCall.known
        /\ ~apiCall.known => (apiCall.status = 404 /\ apiCall.body.detail = "Job not found")

\* C28: what extract_cells_from_path reads through a row's local_path has
\* the cell types and sources of the content the row was created from.
C28_ContentKept ==
    \A row \in notebooks :
        LET Text(cells) == [p \in 1..Len(cells) |->
                               <<cells[p].cell_type, cells[p].source>>]
        IN  Text(extract_cells_from_path(files, row.local_path)) =
            Text(extract_cells(row.uploaded))

\* C26: once process_notebook has answered, no temporary notebook file is
\* left, whatever the answer was.
C26_TempFileRemoved ==
    (request.endpoint = "process_notebook" /\ response # NoResponse) => tmp_files = {}

\* C22: the FastAPI convert endpoint answers a document whose
\* metadata.visionos_export is truthy with 200 and the document's cells as
\* they were, window_count being the number of cells with a visionos_window
\* entry, and evaluates nothing; a document without the marker is the one
\* that goes to chart extraction.
C22_VisionKept ==
    (request.endpoint = "convert" /\ request.app = "fastapi") =>
        LET upload == request.upload
        IN  /\ upload.kind = "visionos" =>
                 /\ response.status = 200
                 /\ response.body.cells = upload.cells
                 /\ response.body._processed_info.window_count =
                       Cardinality({ p \in 1..Len(upload.cells) : IsWindow(upload.cells[p]) })
                 /\ evalLog = <<>> /\ pc = <<>>
            /\ (upload.kind = "notebook" /\ response # NoResponse) => pc = <<"done">>

(***************************************************************************)
(* The two forms of a cell's source.                                       *)
(*                                                                         *)
(* Each operation that reads a source is applied to a list of lines and to *)
(* the string the lines join to; the response holds both results.          *)
(***************************************************************************)
MaxLines == 2

SourceStmts == {"x=1", "plt.plot(x)", "plt.plot([1])", "#Matplotlib", "import numpy"}

\* str.splitlines(keepends=True) of a text with these statements: every
\* line but the last ends with "\n", the last one may.
SourceLines(stmts, newline_at_end) ==
    [i \in 1..Len(stmts) |->
        IF i < Len(stmts) \/ newline_at_end THEN <<stmts[i], "\n">> ELSE <<stmts[i]>>]

SourceInputs ==
    { SourceLines(stmts, nl) : stmts \in SeqsUpTo(SourceStmts, MaxLines), nl \in BOOLEAN }

\* The Flask server: nbformat.read has joined the lines, and line 130 would
\* join them if it had not; then the keyword check, then exec.
FlaskReadsSource(source) ==
    LET read == ReadCell([cell_type |-> "code", source |-> source]).source
    IN  IF read # <<>> /\ PlotLike(read)
        THEN [plot_like |-> TRUE, raised |-> Exec(read, <<>>, Preset("flask"), 1, 1).raised,
              figures |-> Len(Exec(read, <<>>, Preset("flask"), 1, 1).figs)]
        ELSE [plot_like |-> FALSE, raised |-> FALSE, figures |-> 0]

\* The FastAPI server: nbformat.from_dict wraps the dicts and joins nothing,
\* so exec is handed the list and raises TypeError, which the except clause
\* of execute_cell_and_capture_plots swallows; PythonExporter, which is run
\* on the whole notebook first, may itself raise on such a cell, in which
\* case extract_charts_from_notebook answers {"error": ...}.
FastReadsSource(source, exporter_raises) ==
    IF source.form = "list"
    THEN [error |-> exporter_raises, raised |-> TRUE, figures |-> 0]
    ELSE [error |-> FALSE,
          raised |-> Exec(source.text, <<>>, Preset("fastapi"), 1, 1).raised,
          figures |-> Len(Exec(source.text, <<>>, Preset("fastapi"), 1, 1).figs)]

PlotIndicators == {"plt.", "plot(", "scatter(", "bar(", "hist("}

\* The names ast.walk finds in the Import nodes of a statement.
Imports(stmt) == IF stmt = "import numpy" THEN {"numpy"} ELSE {}

\* analyze_notebook on one code cell: the lines are joined, then searched
\* (without lower()) and parsed.
AnalyzeReadsSource(source) ==
    LET text == IF source.form = "list" THEN Join(source.lines) ELSE source.text
    IN  [has_plots |-> \E i \in 1..Len(text), indicator \in PlotIndicators :
                           Contains(text[i], indicator),
         imports |-> UNION { Imports(text[i]) : i \in 1..Len(text) }]

SourceOps == {"normalize_cell", "flask_chart", "fastapi_chart", "analyze", "content_preview"}

ReadsSource(op, source, exporter_raises) ==
    CASE op = "normalize_cell" -> normalize_cell([cell_type |-> "code", source |-> source])
      [] op = "flask_chart" -> FlaskReadsSource(source)
      [] op = "fastapi_chart" -> FastReadsSource(source, exporter_raises)
      [] op = "analyze" -> AnalyzeReadsSource(source)
      [] op = "content_preview" -> content_preview(source)

\* One operation reads the source, given once as the list and once as the
\* joined string.
ReadSource ==
    \E op \in SourceOps, exporter_raises \in BOOLEAN :
        /\ request.endpoint = "source"
        /\ response' = [op |-> op,
                        as_list |-> ReadsSource(op, ListSource(request.lines), exporter_raises),
                        as_str |-> ReadsSource(op, StrSource(Join(request.lines)),
                                               exporter_raises)]
        /\ UNCHANGED <<request, doc, outputs, extract_pc, chartVars, spatialVars, serviceVars>>

InitSource ==
    /\ request \in { [endpoint |-> "source", lines |-> lines] : lines \in SourceInputs }
    /\ response = NoResponse
    /\ doc = <<>> /\ outputs = <<>> /\ extract_pc = "off"
    /\ ChartIdle /\ SpatialIdle /\ ServiceIdle

NextSource == ReadSource

SpecSource == InitSource /\ [][NextSource]_vars

\* C21: every operation that reads a cell's source gives, for a list of
\* lines, the result it gives for the joined string, and raises for neither.
C21_SameForBothForms ==
    (request.endpoint = "source" /\ response # NoResponse) =>
        /\ response.as_list = response.as_str
        /\ response.op \in {"fastapi_chart", "content_preview"} =>
              response.as_list.raised \in {FALSE, ""}

(***************************************************************************)
(* Flask convert: two requests with the same secured file name.            *)
(*                                                                         *)
(* app.run serves each request in its own thread.  Both requests have      *)
(* passed the checks on the file part and are about to save the upload to  *)
(* os.path.join(UPLOAD_FOLDER, secure_filename(file.filename)).            *)
(***************************************************************************)
ConvThreads == {1, 2}

\* The path both uploads are saved to.
temp_path == "/tmp/notebooks/nb.ipynb"

FileNotFoundError == "[Errno 2] No such file or directory: '/tmp/notebooks/nb.ipynb'"

\* The files the two clients upload: a JSON text and the document it
\* stands for.
RaceUploads ==
    { [json |-> [nbformat |-> 4, cells |-> <<[cell_type |-> "code",
                                              source |-> <<"plt.plot([1])">>]>>]],
      [json |-> [cells |-> <<[cell_type |-> "code", source |-> <<"plt.figure()">>]>>]],
      [json |-> [nbformat |-> 4, cells |-> <<>>]] }

\* json.load(f)
JsonLoad(file) == file.json

NoDocument == EmptyDict

\* The thread's except clause: jsonify({'error': str(e)}), 500
ConvFails(c, message) ==
    [c EXCEPT !.pc = "done", !.status = 500, !.body = [error |-> message]]

\* file.save(temp_path)
ConvSave(t) ==
    /\ conv[t].pc = "save"
    /\ upload_folder' = Put(upload_folder, temp_path, conv[t].upload)
    /\ conv' = [conv EXCEPT ![t].pc = "load"]

\* with open(temp_path) as f: notebook_content = json.load(f)
ConvLoad(t) ==
    /\ conv[t].pc = "load"
    /\ conv' = [conv EXCEPT ![t] =
                  IF Has(upload_folder, temp_path)
                  THEN [@ EXCEPT !.pc = "generate",
                                 !.notebook_content = JsonLoad(upload_folder[temp_path])]
                  ELSE ConvFails(@, FileNotFoundError)]
    /\ UNCHANGED upload_folder

\* generate_chart_images_from_notebook(temp_path): the file is opened again
\* and its cells are the ones evaluated.
ConvGenerate(t) ==
    /\ conv[t].pc = "generate"
    /\ conv' = [conv EXCEPT ![t] =
                  IF Has(upload_folder, temp_path)
                  THEN [@ EXCEPT !.pc = "exists",
                                 !.evaluated = JsonLoad(upload_folder[temp_path]).cells]
                  ELSE [@ EXCEPT !.pc = "exists", !.raised = FileNotFoundError]]
    /\ UNCHANGED upload_folder

\* finally: if os.path.exists(temp_path):
ConvExists(t) ==
    /\ conv[t].pc = "exists"
    /\ conv' = [conv EXCEPT ![t].pc = IF Has(upload_folder, temp_path) THEN "unlink"
                                      ELSE "respond"]
    /\ UNCHANGED upload_folder

\* os.unlink(temp_path): raises when the file has gone since the test
ConvUnlink(t) ==
    /\ conv[t].pc = "unlink"
    /\ IF Has(upload_folder, temp_path)
       THEN /\ upload_folder' = [k \in DOMAIN upload_folder \ {temp_path} |-> upload_folder[k]]
            /\ conv' = [conv EXCEPT ![t].pc = "respond"]
       ELSE /\ conv' = [conv EXCEPT ![t] = ConvFails(@, FileNotFoundError)]
            /\ UNCHANGED upload_folder

\* The return statement, or the except clause for what was raised on the way.
ConvRespond(t) ==
    /\ conv[t].pc = "respond"
    /\ LET c == conv[t]
       IN  conv' = [conv EXCEPT ![t] =
                      IF c.raised # "" THEN ConvFails(c, c.raised)
                      ELSE IF Has(c.notebook_content, "nbformat")
                      THEN [c EXCEPT !.pc = "done", !.status = 200,
                                     !.body = c.notebook_content]
                      ELSE [c EXCEPT !.pc = "done", !.status = 200,
                                     !.body = [charts_of |-> c.evaluated]]]
    /\ UNCHANGED upload_folder

ConvStep(t) ==
    /\ \/ ConvSave(t) \/ ConvLoad(t) \/ ConvGenerate(t)
       \/ ConvExists(t) \/ ConvUnlink(t) \/ ConvRespond(t)
    /\ UNCHANGED <<extractVars, chartVars, spatialVars, apiVars, tmpVars, bridgeVars>>

InitRace ==
    /\ upload_folder = EmptyDict
    /\ conv \in [ConvThreads -> { [pc |-> "save", upload |-> u, notebook_content |-> NoDocument,
                               evaluated |-> <<>>, raised |-> "", status |-> 0,
                               body |-> EmptyDict] : u \in RaceUploads }]
    /\ ExtractIdle /\ ChartIdle /\ SpatialIdle /\ ApiIdle /\ TmpIdle /\ BridgeIdle

NextRace == \E t \in ConvThreads : ConvStep(t)

SpecRace == InitRace /\ [][NextRace]_vars

\* C27: a convert request that has answered answered 200, and what it
\* parsed and what it evaluated are the document it uploaded itself.
C27_OwnContent ==
    \A t \in ConvThreads :
        conv # <<>> /\ conv[t].pc = "done" =>
            /\ conv[t].status = 200
            /\ conv[t].notebook_content = JsonLoad(conv[t].upload)
            /\ conv[t].evaluated = JsonLoad(conv[t].upload).cells

(***************************************************************************)
(* Pulto API: the MQTT WebSocket bridge (mqtt_stream, AsyncWSBridge).      *)
(*                                                                         *)
(* The handler coroutine runs on the server's event loop; on_message runs  *)
(* in the MQTT client's network thread.  The bridge is taken from after    *)
(* ws.accept() and the construction of the AsyncWSBridge.                  *)
(***************************************************************************)
MaxMessages == 3

Payloads == {"m1", "m2"}

\* asyncio.get_event_loop() in the network thread: it returns the server's
\* loop only when that thread has been given it, and raises RuntimeError
\* ("There is no current event loop in thread ...") otherwise, in which case
\* put_nowait is never scheduled.
OnMessageOutcomes == {"enqueues", "raises"}

\* The MQTT client is connected and its network loop runs.
Subscribed == bridge.client = "connected" /\ bridge.loop = "running"

\* run(): connect, subscribe, loop_start
BridgeRun ==
    /\ bridge.pc = "run"
    /\ bridge' = [bridge EXCEPT !.client = "connected", !.loop = "running", !.pc = "get"]

\* The broker delivers a message on the topic: _on_message
BrokerMessage ==
    /\ Subscribed
    /\ Len(bridge.received) < MaxMessages
    /\ \E payload \in Payloads :
          bridge' = [bridge EXCEPT
                       !.received = Append(@, payload),
                       !.queue = IF bridge.on_message = "enqueues"
                                 THEN Append(@, payload) ELSE @]

\* item = await self.queue.get(): waits while the queue is empty
BridgeGet ==
    /\ bridge.pc = "get"
    /\ bridge.queue # <<>>
    /\ bridge' = [bridge EXCEPT !.item = Head(bridge.queue), !.queue = Tail(@),
                                !.pc = "send"]

\* await self.ws.send_json(item): raises once the peer has gone
BridgeSend ==
    /\ bridge.pc = "send"
    /\ bridge' = IF bridge.ws = "open"
                 THEN [bridge EXCEPT !.sent = Append(@, bridge.item), !.pc = "get"]
                 ELSE [bridge EXCEPT !.pc = "finally"]

\* finally: self.client.loop_stop()
BridgeLoopStop ==
    /\ bridge.pc = "finally"
    /\ bridge' = [bridge EXCEPT !.loop = "stopped", !.pc = "shutdown"]

\* mqtt_stream's finally: await client.shutdown() -> self.client.disconnect()
BridgeShutdown ==
    /\ bridge.pc = "shutdown"
    /\ bridge' = [bridge EXCEPT !.client = "disconnected", !.pc = "ended"]

\* The WebSocket peer goes away.
PeerDisconnects ==
    /\ bridge.ws = "open"
    /\ bridge' = [bridge EXCEPT !.ws = "closed"]

\* The steps of the handler coroutine.
BridgeStep ==
    /\ BridgeRun \/ BridgeGet \/ BridgeSend \/ BridgeLoopStop \/ BridgeShutdown
    /\ UNCHANGED <<extractVars, chartVars, spatialVars, apiVars, tmpVars, raceVars>>

\* What the broker and the peer do.
BridgeEnvironment ==
    /\ BrokerMessage \/ PeerDisconnects
    /\ UNCHANGED <<extractVars, chartVars, spatialVars, apiVars, tmpVars, raceVars>>

InitBridge ==
    /\ bridge \in { [state |-> "accepted", ws |-> "open", client |-> "new",
                     loop |-> "not started", on_message |-> o, received |-> <<>>,
                     queue |-> <<>>, item |-> "", sent |-> <<>>, pc |-> "run"] :
                       o \in OnMessageOutcomes }
    /\ ExtractIdle /\ ChartIdle /\ SpatialIdle /\ ApiIdle /\ TmpIdle /\ RaceIdle

NextBridge == BridgeStep \/ BridgeEnvironment

\* The event loop runs a coroutine that can go on; nothing makes the broker
\* send or the peer leave.
SpecBridge == InitBridge /\ [][NextBridge]_vars /\ WF_vars(BridgeStep)

\* C30: what has been sent to the WebSocket is a prefix of what the broker
\* delivered, and once the peer has disconnected the bridge eventually has
\* stopped its network loop and disconnected its MQTT client.
C30_ForwardsThenEnds ==
    /\ [](bridge.state = "accepted" =>
            /\ Len(bridge.sent) <= Len(bridge.received)
            /\ bridge.sent = SubSeq(bridge.received, 1, Len(bridge.sent)))
    /\ (bridge.state = "accepted" /\ bridge.ws = "closed")
          ~> (bridge.loop = "stopped" /\ bridge.client = "disconnected")

====
